---- MODULE Spec2Model ----
(***************************************************************************)
(* Trip / toll state machine of the Automated-toll app.                    *)
(*                                                                         *)
(* Device side: HomeScreen of src/app/(app)/home.tsx (React hooks 1-9,     *)
(* syncOfflineTransactions, calculateAndChargeToll).  Backend side: the    *)
(* Firestore trigger calculateTollOnSighting of src/unnamed/part_005.      *)
(*                                                                         *)
(* Geometry.  Every coordinate of the model lies on one meridian           *)
(* (lng = 50, through the middle of the zone); latitude is counted in      *)
(* metres of arc, so that the haversine distance of two points is the      *)
(* absolute difference of their latitudes.  A latitude is the exact        *)
(* rational lat/den, because the smoothing filter emits arithmetic means.  *)
(*                                                                         *)
(* React.  A state update re-renders the component and re-runs the hooks   *)
(* whose dependencies changed; a hook sees the state of its own render.    *)
(* One action of the model is one event-loop task together with the        *)
(* cascade of renders it causes.  Every await of the source is a step of   *)
(* its own: the operation in flight is kept in tripOps, timers, chargeOps, *)
(* pendingOps or syncOps together with the values its closure captured.    *)
(***************************************************************************)
EXTENDS Bags, Integers, Sequences, FiniteSets, TLC

\* ------------------------------------------------------------- bounds
MaxSamples == 4
MaxGpsEvents == 2
MaxNetEvents == 2
MaxSightings == 1
MaxTopUps == 1

\* ---------------------------------------------------- program constants
AccuracyCeiling == 75
JumpThreshold == 100
HistoryCapacity == 7
FetchThresholdMeters == 100
RateNum == 50
RateDen == 20
WalletFloor == 500
TollRatePerMeter == 1
InitialWallet == 1000
TopUpAmount == 500

\* ------------------------------------------------------------ the world
NoAccuracy == 0 - 1
TrackLats == {0 - 30, 11, 130}
Accuracies == {10, 80}
Uid == "u1"
\* the userId of a Trip whose vehicle has no account
Unregistered == ""

NoZone == "none"
NULL == <<>>

Point(lat, lng) == [lat |-> lat, lng |-> lng]

\* tollZones collection: the one zone of the model, a 100 m x 100 m square
ZoneCoordinates(z) ==
  IF z = "A" THEN << Point(0, 0), Point(100, 0), Point(100, 100), Point(0, 100) >>
  ELSE IF z = "B" THEN << Point(120, 0), Point(220, 0), Point(220, 100), Point(120, 100) >>
  ELSE << >>

\* a variant that places a camera without a registered location at the origin
CameraLocationDefault(c) ==
  IF c = "c2" THEN << Point(100, 50) >>
  ELSE << Point(0, 50) >>

\* tollZones/{id}.operators[cameraId].location
CameraLocation(c) ==
  IF c = "c1" THEN << Point(0, 50) >>
  ELSE IF c = "c2" THEN << Point(100, 50) >>
  ELSE NULL

Cameras == {"c1", "c2"}

\* the cameras that report sightings: c3 has no entry under operators
AllCameras == Cameras \cup {"c3"}

\* a Location.LocationObject: coords.latitude = lat/den, coords.accuracy = acc
Loc(lat, den, acc) == [lat |-> lat, den |-> den, lng |-> 50, acc |-> acc]

Samples == { Loc(l, 1, a) : l \in TrackLats, a \in Accuracies }

GoodSamples == { s \in Samples : s.acc <= AccuracyCeiling }

\* ------------------------------------------------------------ arithmetic
Abs(x) == IF x < 0 THEN 0 - x ELSE x

RECURSIVE Gcd(_, _)
Gcd(a, b) == IF b = 0 THEN a ELSE Gcd(b, a % b)

\* a rational in lowest terms
Rat(n, d) == LET g == Gcd(Abs(n), d) IN [num |-> n \div g, den |-> d \div g]

RatGt(r, k) == r.num > k * r.den

RatLt(r, k) == r.num < k * r.den

RatMul(r, n, d) == Rat(r.num * n, r.den * d)

RatMax0(r) == IF r.num < 0 THEN Rat(0, 1) ELSE r

\* Math.round on a rational: the nearest integer, halves towards +infinity
MathRound(r) == (2 * r.num + r.den) \div (2 * r.den)

Max(a, b) == IF a > b THEN a ELSE b

\* getDistance: haversine distance in metres of two points of the meridian
getDistance(a, b) == Rat(Abs(a.lat * b.den - b.lat * a.den), a.den * b.den)

\* a variant that truncates the product instead of rounding it
calculatedTollTruncated(entry, exit) ==
  LET r == RatMul(getDistance(entry, exit), RateNum, RateDen) IN Max(0, r.num \div r.den)

\* a variant that rounds a half down
calculatedTollHalfDown(entry, exit) ==
  LET r == RatMul(getDistance(entry, exit), RateNum, RateDen)
  IN Max(0, (2 * r.num + r.den - 1) \div (2 * r.den))

\* Math.max(0, Math.round(distanceMeters * ratePerMeter)), ratePerMeter = 50 / 20
calculatedToll(entry, exit) ==
  Max(0, MathRound(RatMul(getDistance(entry, exit), RateNum, RateDen)))

\* isPointInPolygon: even-odd ray casting; x is lat, y is lng.  The division
\* by (yj - yi) of the source is cleared by cross-multiplication.
Intersects(p, pi, pj) ==
  /\ (pi.lng > p.lng) # (pj.lng > p.lng)
  /\ LET d == pj.lng - pi.lng
         lhs == (p.lat - pi.lat * p.den) * d
         rhs == (pj.lat - pi.lat) * (p.lng - pi.lng) * p.den
     IN IF d > 0 THEN lhs < rhs ELSE lhs > rhs

isPointInPolygon(p, polygon) ==
  LET n == Len(polygon)
      crossings == { i \in 1..n : Intersects(p, polygon[i], polygon[IF i = 1 THEN n ELSE i - 1]) }
  IN Cardinality(crossings) % 2 = 1

RECURSIVE SumLat(_)
SumLat(h) == IF h = << >> THEN 0 ELSE Head(h).lat + SumLat(Tail(h))

\* ------------------------------------------------------------------ state
VARIABLES
  \* useState of HomeScreen
  walletBalance, rawLocation, tripLocation, tollZones, physicallyInZone,
  tripZone, entryPoint, isOffline, pendingDeduction, gpsStatus,
  \* useRef of HomeScreen
  locationHistoryRef, exitTimerRef, lastZoneFetchLocationRef,
  \* operations in flight
  zoneFetch, timers, tripOps, chargeOps, pendingOps, syncOps,
  \* AsyncStorage
  offlineTransactions, storedPendingDeduction,
  \* Firestore
  userWallet, transactions, trip, events,
  \* bookkeeping of the run
  budget, tripNo, chargeLog, handoff, audit

deviceVars == << walletBalance, rawLocation, tripLocation, tollZones, physicallyInZone,
                 tripZone, entryPoint, isOffline, pendingDeduction, gpsStatus >>
refVars == << locationHistoryRef, exitTimerRef, lastZoneFetchLocationRef >>
opVars == << zoneFetch, timers, tripOps, chargeOps, pendingOps, syncOps >>
storageVars == << offlineTransactions, storedPendingDeduction >>
firestoreVars == << userWallet, transactions, trip, events >>
logVars == << budget, tripNo, chargeLog, handoff >>
vars == << deviceVars, refVars, opVars, storageVars, firestoreVars, logVars, audit >>

\* the id of a new timer or operation: the least one not in use
FreeId(ops) == CHOOSE i \in 1..(Cardinality(ops) + 1) : \A o \in ops : o.id # i

\* ------------------------------------------------------------ the hooks

\* hook 3: the first zone of the working set that contains the raw location
containingZone(raw, zones) ==
  LET hits == { i \in 1..Len(zones) : isPointInPolygon(raw, ZoneCoordinates(zones[i])) }
  IN IF hits = {} THEN NoZone
     ELSE zones[CHOOSE i \in hits : \A j \in hits : i <= j]

Hook3(raw, zones) == IF Len(zones) = 0 THEN NoZone ELSE containingZone(raw, zones)

\* hook 4: accuracy filter, jump detection, raw inside a zone, mean outside.
\* Result: the new tripLocation and the new locationHistoryRef.current.
\* a variant without smoothing: the newest sample is emitted as it is
SmoothedLatest(raw, h) == raw

Smoothed(raw, h) ==
  LET m == Rat(SumLat(h), Len(h)) IN Loc(m.num, m.den, raw.acc)

Pushed(raw, hist) ==
  LET h == Append(hist, raw)
  IN IF Len(h) > HistoryCapacity THEN Tail(h) ELSE h

\* a variant without jump detection: a far sample is smoothed like any other
Hook4NoJump(raw, inZone, hist, tloc) ==
  IF raw.acc # NoAccuracy /\ raw.acc > AccuracyCeiling
  THEN [trip |-> tloc, hist |-> hist]
  ELSE IF inZone # NoZone
  THEN [trip |-> << raw >>, hist |-> << >>]
  ELSE [trip |-> << Smoothed(raw, Pushed(raw, hist)) >>, hist |-> Pushed(raw, hist)]

Hook4(raw, inZone, hist, tloc) ==
  IF raw.acc # NoAccuracy /\ raw.acc > AccuracyCeiling
  THEN [trip |-> tloc, hist |-> hist]
  ELSE IF Len(hist) > 0 /\ RatGt(getDistance(hist[Len(hist)], raw), JumpThreshold)
  THEN [trip |-> << raw >>, hist |-> << raw >>]
  ELSE IF inZone # NoZone
  THEN [trip |-> << raw >>, hist |-> << >>]
  ELSE [trip |-> << Smoothed(raw, Pushed(raw, hist)) >>, hist |-> Pushed(raw, hist)]

\* hook 5, entry branch: markTripAsGPS is started for the zone just entered
MarkOp(zone, tloc, n) ==
  [kind |-> "mark", zone |-> zone, loc |-> tloc, phase |-> "query", trip |-> n]

\* hook 5, exit branch: the callback handed to setTimeout, with what its
\* closure captured from the render that created it (calculateAndChargeToll
\* of that render reads isOffline, walletBalance and pendingDeduction)
TimerClosure(id, ep, tloc, tz, cl, n) ==
  [id |-> id, entry |-> ep, exit |-> tloc, zone |-> tz, isOffline |-> cl.isOffline,
   walletBalance |-> cl.walletBalance, pendingDeduction |-> cl.pendingDeduction,
   trip |-> n, phase |-> "scheduled"]

\* a variant without the guard: every render of the exit branch arms a timer
NoTimerPendingUnguarded(ref) == TRUE

\* the guard of the exit branch: if (!exitTimerRef.current)
NoTimerPending(ref) == ref = 0

\* a variant that takes any zone other than the trip's for the outside
LeftZoneOfTrip(cur) == cur.physicallyInZone # cur.tripZone /\ cur.tripZone # NoZone

\* the condition of the exit branch: else if (!physicallyInZone && tripZone)
LeftZone(cur) == cur.physicallyInZone = NoZone /\ cur.tripZone # NoZone

\* hook 5 as a function of the render it runs in.  cur is [physicallyInZone,
\* tripLocation, tripZone, entryPoint, exitTimerRef, timers], cl the ledger
\* state of the render, id the next timer id, n the number of the current trip.
TripLogic(cur, cl, id, n) ==
  IF cur.physicallyInZone # NoZone /\ cur.tripZone = NoZone
  THEN [cur EXCEPT !.exitTimerRef = 0,
                   !.timers = { t \in @ : ~ (t.id = cur.exitTimerRef /\ t.phase = "scheduled") },
                   !.tripZone = cur.physicallyInZone,
                   !.entryPoint = cur.tripLocation]
  ELSE IF LeftZone(cur) /\ NoTimerPending(cur.exitTimerRef)
  THEN [cur EXCEPT !.exitTimerRef = id,
                   !.timers = @ \cup { TimerClosure(id, cur.entryPoint, cur.tripLocation,
                                                    cur.tripZone, cl, n) }]
  ELSE cur

\* hook 8: saveLastGpsLocation is started when the hardware is off inside a zone
SaveOps(inZone, status, raw, n) ==
  IF inZone # NoZone /\ status = "Disconnected" /\ raw # NULL
  THEN { [kind |-> "save", zone |-> inZone, loc |-> raw, phase |-> "query", trip |-> n] }
  ELSE {}

\* a variant of hook 6 that never starts processPending
PendingOpsNever(pd, wb, off) == {}

\* hook 6: processPending is started when the stored deduction is affordable
\* (pendingDeduction && walletBalance && !isOffline: a balance of 0 is falsy)
PendingOps(pd, wb, off) ==
  IF /\ pd # NULL /\ wb # NULL /\ wb # << 0 >> /\ ~ off
     /\ wb[1] - calculatedToll(pd[1].entry, pd[1].exit) >= WalletFloor
  THEN { [id |-> 0, entry |-> pd[1].entry, exit |-> pd[1].exit, zone |-> pd[1].zone,
          walletBalance |-> wb, phase |-> "sleep"] }
  ELSE {}

Ledger == [isOffline |-> isOffline, walletBalance |-> walletBalance,
           pendingDeduction |-> pendingDeduction]

Current == [physicallyInZone |-> physicallyInZone, tripLocation |-> tripLocation,
            tripZone |-> tripZone, entryPoint |-> entryPoint,
            exitTimerRef |-> exitTimerRef, timers |-> timers]

\* the renders that follow a new rawLocation (newRaw) or a new tollZones:
\* hook 3 decides membership; hook 4 runs on the new sample with the
\* membership of the render before, and once more if membership changed;
\* hook 5 runs in the render that carries the new membership, where
\* tripLocation is still the output of the first run of hook 4; hook 8 runs
\* once per render whose rawLocation or physicallyInZone is new.
Cascade(raw, zones, newRaw, newZones) ==
  LET piz1 == Hook3(raw, zones)
      moved == piz1 # physicallyInZone
      f1 == IF newRaw
            THEN Hook4(raw, physicallyInZone, locationHistoryRef, tripLocation)
            ELSE [trip |-> tripLocation, hist |-> locationHistoryRef]
      f2 == IF moved THEN Hook4(raw, piz1, f1.hist, f1.trip) ELSE f1
      t5 == TripLogic([Current EXCEPT !.physicallyInZone = piz1, !.tripLocation = f1.trip],
                      Ledger, FreeId(timers), IF tripZone = NoZone THEN tripNo + 1 ELSE tripNo)
      entered == t5.tripZone # tripZone
      n1 == IF entered THEN tripNo + 1 ELSE tripNo
      saves == (IF newRaw THEN SaveOps(physicallyInZone, gpsStatus, << raw >>, tripNo) ELSE {})
               \cup (IF moved \/ (newZones /\ piz1 # NoZone)
                     THEN SaveOps(piz1, gpsStatus, << raw >>, n1) ELSE {})
  IN /\ physicallyInZone' = piz1
     /\ tripLocation' = f2.trip
     /\ locationHistoryRef' = f2.hist
     /\ tripZone' = t5.tripZone
     /\ entryPoint' = t5.entryPoint
     /\ exitTimerRef' = t5.exitTimerRef
     /\ timers' = t5.timers
     /\ tripNo' = n1
     /\ tripOps' = tripOps \cup saves
                   \cup (IF entered THEN { MarkOp(t5.tripZone, t5.entryPoint, n1) } ELSE {})
     /\ budget' = [budget EXCEPT !.samples = IF newRaw THEN @ - 1 ELSE @]

\* hook 1 and hook 2: watchPositionAsync delivers a sample; the zones are
\* fetched again once the vehicle is FETCH_THRESHOLD_METERS from the last fetch
OnLocation(s) ==
  /\ budget.samples > 0
  /\ rawLocation' = << s >>
  /\ LET refetch == \/ lastZoneFetchLocationRef = NULL
                    \/ ~ RatLt(getDistance(lastZoneFetchLocationRef[1], s), FetchThresholdMeters)
     IN /\ lastZoneFetchLocationRef' = IF refetch THEN << s >> ELSE lastZoneFetchLocationRef
        /\ zoneFetch' = (zoneFetch \/ refetch)
  /\ Cascade(s, tollZones, TRUE, FALSE)
  /\ UNCHANGED << walletBalance, tollZones, isOffline, pendingDeduction, gpsStatus,
                  chargeOps, pendingOps, syncOps, storageVars, firestoreVars, chargeLog,
                  handoff, audit >>

\* hook 2, after the await: setTollZones(matchingDocs)
ZonesFetched(zones) ==
  /\ zoneFetch
  /\ zoneFetch' = FALSE
  /\ tollZones' = zones
  /\ Cascade(rawLocation[1], zones, FALSE, TRUE)
  /\ UNCHANGED << walletBalance, rawLocation, isOffline, pendingDeduction, gpsStatus,
                  lastZoneFetchLocationRef, chargeOps, pendingOps, syncOps,
                  storageVars, firestoreVars, chargeLog, handoff, audit >>

\* ------------------------------------------------- the Trip record
\* the query of markTripAsGPS, saveLastGpsLocation and the grace callback:
\* userId == uid, tollZoneId == zone, status == "active", limit(1)
ActiveTrip(zone) ==
  trip.userId = Uid /\ trip.tollZoneId = zone /\ trip.status = "active"

\* await getDocs(q) of markTripAsGPS / saveLastGpsLocation
TripOpQuery(op) ==
  /\ op \in tripOps /\ op.phase = "query"
  /\ tripOps' = IF ActiveTrip(op.zone)
                THEN (tripOps \ {op}) \cup { [op EXCEPT !.phase = "write"] }
                ELSE tripOps \ {op}
  /\ UNCHANGED << deviceVars, refVars, zoneFetch, timers, chargeOps, pendingOps, syncOps,
                  storageVars, firestoreVars, logVars, audit >>

\* what updateDoc of markTripAsGPS writes (gpsEntryPoint is read nowhere)
MarkWrite(t, op) == [t EXCEPT !.calculationMethod = "GPS"]

\* a variant that stores the anchor and leaves calculationMethod alone
SaveWriteAnchorOnly(t, op) ==
  [t EXCEPT !.lastKnownGpsLocation = << Point(op.loc[1].lat, op.loc[1].lng) >>]

\* what updateDoc of saveLastGpsLocation writes
SaveWrite(t, op) ==
  [t EXCEPT !.lastKnownGpsLocation = << Point(op.loc[1].lat, op.loc[1].lng) >>,
            !.calculationMethod = "HYBRID"]

\* await updateDoc(tripDocRef, ...): the write reaches the server when online
\* the event onDocumentUpdated receives for an update of the Trip record
\* from t to u: the checkpoint before, the document after
UpdateEvent(t, u) == [before |-> t.lastCheckpoint, after |-> u]

\* await updateDoc(tripDocRef, ...) of markTripAsGPS / saveLastGpsLocation.
\* Firestore invokes calculateTollOnSighting for the update; with notify the
\* invocation is an event of the model, without it the invocation is left
\* out (the update does not change lastCheckpoint).
TripOpUpdate(op, notify) ==
  /\ op \in tripOps /\ op.phase = "write"
  /\ ~ isOffline
  /\ tripOps' = tripOps \ {op}
  /\ trip' = IF op.kind = "mark" THEN MarkWrite(trip, op) ELSE SaveWrite(trip, op)
  /\ events' = IF notify THEN events \cup { UpdateEvent(trip, trip') } ELSE events
  /\ handoff' = IF op.kind = "save" THEN handoff \cup {op.trip} ELSE handoff
  /\ UNCHANGED << deviceVars, refVars, zoneFetch, timers, chargeOps, pendingOps, syncOps,
                  storageVars, userWallet, transactions, budget, tripNo,
                  chargeLog, audit >>

TripOpWrite(op) == TripOpUpdate(op, FALSE)

TripOpWriteNotified(op) == TripOpUpdate(op, TRUE)

\* hook 7: checkGpsStatus (every 3 s, on a new rawLocation, on foreground);
\* hook 8 then runs with the new gpsStatus
CheckGpsStatus(isGpsEnabled) ==
  LET status == IF ~ isGpsEnabled THEN "Disconnected"
                ELSE IF rawLocation # NULL THEN "Connected" ELSE "Searching..."
  IN /\ budget.gps > 0
     /\ status # gpsStatus
     /\ gpsStatus' = status
     /\ budget' = [budget EXCEPT !.gps = @ - 1]
     /\ tripOps' = tripOps \cup SaveOps(physicallyInZone, status, rawLocation, tripNo)
     /\ UNCHANGED << walletBalance, rawLocation, tripLocation, tollZones, physicallyInZone,
                     tripZone, entryPoint, isOffline, pendingDeduction, refVars, zoneFetch,
                     timers, chargeOps, pendingOps, syncOps, storageVars, firestoreVars,
                     tripNo, chargeLog, handoff, audit >>

\* ------------------------------------------------- calculateAndChargeToll
\* the part of calculateAndChargeToll before its first await, for the
\* closure cl = [isOffline, walletBalance, pendingDeduction] it was created in
ChargeBranch(entry, exit, zone, cl) ==
  IF entry = NULL \/ exit = NULL \/ zone = NoZone THEN "none"
  ELSE IF cl.isOffline THEN "offline"
  ELSE IF cl.walletBalance # NULL
          /\ cl.walletBalance[1] - calculatedToll(entry[1], exit[1]) < WalletFloor THEN "low"
  ELSE "online"

ChargeOp(id, entry, exit, zone, branch, pend, n, cl) ==
  [id |-> id, toll |-> calculatedToll(entry[1], exit[1]), zone |-> zone,
   phase |-> IF branch = "offline" THEN "offRead" ELSE "wallet",
   txs |-> NULL, pend |-> pend, trip |-> n,
   deduction |-> IF pend = 0 THEN NULL ELSE cl.pendingDeduction,
   seen |-> cl.walletBalance]

\* Firestore applies a local write to its cache at once and tells the
\* onSnapshot listener, which calls setWalletBalance: the balance the device
\* shows after it has issued a decrement
LocalDecrement(wb, amount) == IF wb = NULL THEN NULL ELSE << wb[1] - amount >>

\* a variant that stores the new deduction over an outstanding one
StoresPendingAlways(branch, cl) == branch = "low"

\* low-balance branch: if (!pendingDeduction) { setPendingDeduction(newPending); ... }
StoresPending(branch, cl) == branch = "low" /\ cl.pendingDeduction = NULL

\* the effect of one call: an operation in flight (offline, online) or the
\* PendingDeduction (low balance, none outstanding in the closure)
Charged(entry, exit, zone, cl, pend, n) ==
  LET branch == ChargeBranch(entry, exit, zone, cl)
      newPending == << [entry |-> entry[1], exit |-> exit[1], zone |-> zone] >>
      store == StoresPending(branch, cl)
  IN [branch |-> branch,
      ops |-> IF branch \in {"offline", "online"}
              THEN { ChargeOp(FreeId(chargeOps), entry, exit, zone, branch, pend, n, cl) } ELSE {},
      pendingDeduction |-> IF store THEN newPending ELSE pendingDeduction,
      stored |-> IF store THEN newPending ELSE storedPendingDeduction,
      walletBalance |-> IF branch = "online"
                        THEN LocalDecrement(walletBalance, calculatedToll(entry[1], exit[1]))
                        ELSE walletBalance,
      log |-> << [trip |-> n, branch |-> branch, pend |-> pend,
                  toll |-> IF branch = "none" THEN 0
                           ELSE calculatedToll(entry[1], exit[1])] >>]

\* ------------------------------------------------- the grace timer
\* the 20 s deadline passes: the callback starts and awaits getDocs(q)
TimerFires(t) ==
  /\ t \in timers /\ t.phase = "scheduled"
  /\ timers' = (timers \ {t}) \cup { [t EXCEPT !.phase = "reading"] }
  /\ UNCHANGED << deviceVars, refVars, zoneFetch, tripOps, chargeOps, pendingOps, syncOps,
                  storageVars, firestoreVars, logVars, audit >>

\* a variant that skips the re-read of the Trip record
canChargeUnchecked(zone) == TRUE

\* let canCharge = true; ... if (calculationMethod !== "GPS") canCharge = false
canCharge(zone) == ~ (ActiveTrip(zone) /\ trip.calculationMethod # "GPS")

\* a variant of the callback that forgets the timer and keeps the trip
ClearedTimerOnly(cur, t) ==
  [cur EXCEPT !.exitTimerRef = 0, !.timers = cur.timers \ {t}]

\* "Clear local state regardless": setTripZone(null); setEntryPoint(null);
\* exitTimerRef.current = null; the callback t is over
Cleared(cur, t) ==
  [cur EXCEPT !.tripZone = NoZone, !.entryPoint = NULL,
              !.exitTimerRef = 0, !.timers = cur.timers \ {t}]

\* the callback after the re-read: charge if allowed, then clear tripZone,
\* entryPoint and exitTimerRef; the render that follows runs hook 5 (and
\* hook 6 if pendingDeduction or walletBalance changed)
\* a variant that reads the filtered location again when the timer expires
exitLocationAtExpiry(t) == tripLocation

\* const exitLocation = tripLocation, captured by the callback when it was armed
exitLocation(t) == t.exit

\* a variant in which a query that throws suppresses the charge
canChargeAfterThrowClosed == FALSE

\* let canCharge = true; the catch block of the query only logs
canChargeAfterThrow == TRUE

\* the callback of the grace timer from the end of its await on: can is the
\* value of canCharge the authority check left
TimerCallback(t, can) ==
  /\ t \in timers /\ t.phase = "reading"
  /\ LET cl == [isOffline |-> t.isOffline, walletBalance |-> t.walletBalance,
                pendingDeduction |-> t.pendingDeduction]
         c == IF can
              THEN Charged(t.entry, exitLocation(t), t.zone, cl, 0, t.trip)
              ELSE [branch |-> "none", ops |-> {}, pendingDeduction |-> pendingDeduction,
                    stored |-> storedPendingDeduction, walletBalance |-> walletBalance,
                    log |-> << [trip |-> t.trip, branch |-> "suppressed", pend |-> 0,
                                toll |-> 0] >>]
         c0 == Cleared(Current, t)
         t5 == TripLogic(c0, [Ledger EXCEPT !.pendingDeduction = c.pendingDeduction],
                         FreeId(timers \ {t}), tripNo + 1)
         entered == t5.tripZone # c0.tripZone
     IN /\ chargeOps' = chargeOps \cup c.ops
        /\ pendingDeduction' = c.pendingDeduction
        /\ storedPendingDeduction' = c.stored
        /\ chargeLog' = chargeLog \o c.log
        /\ walletBalance' = c.walletBalance
        /\ pendingOps' = pendingOps \cup
              (IF c.pendingDeduction # pendingDeduction \/ c.walletBalance # walletBalance
               THEN { [o EXCEPT !.id = FreeId(pendingOps)] :
                      o \in PendingOps(c.pendingDeduction, c.walletBalance, isOffline) }
               ELSE {})
        /\ tripZone' = t5.tripZone
        /\ entryPoint' = t5.entryPoint
        /\ exitTimerRef' = t5.exitTimerRef
        /\ timers' = t5.timers
        /\ tripNo' = IF entered THEN tripNo + 1 ELSE tripNo
        /\ tripOps' = tripOps \cup
              (IF entered THEN { MarkOp(t5.tripZone, t5.entryPoint, tripNo + 1) } ELSE {})
  /\ UNCHANGED << rawLocation, tripLocation, tollZones, physicallyInZone,
                  isOffline, gpsStatus, locationHistoryRef, lastZoneFetchLocationRef,
                  zoneFetch, syncOps, offlineTransactions, firestoreVars, budget, handoff, audit >>

\* await getDocs(q) resolves: canCharge follows the Trip record read
TimerReadDone(t) == TimerCallback(t, canCharge(t.zone))

\* await getDocs(q) rejects: the catch block logs, canCharge keeps its value
TimerReadFail(t) == TimerCallback(t, canChargeAfterThrow)

\* ------------------------------------------------- the charge in flight
\* a variant of the wallet write that stores the balance the caller last saw
\* minus the amount (a read-modify-write on the client)
DecrementedAsSet(server, seen, amount) ==
  IF seen = NULL THEN server - amount ELSE seen[1] - amount

\* updateDoc(userDocRef, { walletBalance: increment(-amount) }): the server
\* subtracts from the value it holds, whatever the caller saw
Decremented(server, seen, amount) == server - amount

\* bookkeeping: one entry (of the bag audit.decrements) per decrement the
\* server applied
Applied(by, n, amount, deduction) ==
  [by |-> by, trip |-> n, amount |-> amount, deduction |-> deduction]

OfflineTx(op) == [zone |-> op.zone, amount |-> op.toll, trip |-> op.trip]

Debit(amount, method, n) ==
  [amount |-> amount, type |-> "debit", calculationMethod |-> method, trip |-> n]

\* offline branch: const existingTxs = await AsyncStorage.getItem(...)
ChargeOfflineRead(op) ==
  /\ op \in chargeOps /\ op.phase = "offRead"
  /\ chargeOps' = (chargeOps \ {op}) \cup
                  { [op EXCEPT !.phase = "offWrite", !.txs = offlineTransactions] }
  /\ UNCHANGED << deviceVars, refVars, zoneFetch, timers, tripOps, pendingOps, syncOps,
                  storageVars, firestoreVars, logVars, audit >>

\* a variant that puts the new entry at the head of the queue
EnqueueFront(txs, tx) == << tx >> \o txs

\* txs.push(newOfflineTx)
Enqueue(txs, tx) == Append(txs, tx)

\* offline branch: txs.push(newOfflineTx); await AsyncStorage.setItem(...)
ChargeOfflineWrite(op) ==
  /\ op \in chargeOps /\ op.phase = "offWrite"
  /\ chargeOps' = chargeOps \ {op}
  /\ offlineTransactions' =
       << Enqueue(IF op.txs = NULL THEN << >> ELSE op.txs[1], OfflineTx(op)) >>
  /\ UNCHANGED << deviceVars, refVars, zoneFetch, timers, tripOps, pendingOps, syncOps,
                  storedPendingDeduction, firestoreVars, logVars, audit >>

\* online branch: await updateDoc(userDocRef, {walletBalance: increment(-toll)}):
\* the server applies the decrement
ChargeWalletWrite(op) ==
  /\ op \in chargeOps /\ op.phase = "wallet"
  /\ ~ isOffline
  /\ userWallet' = Decremented(userWallet, op.seen, op.toll)
  /\ chargeOps' = (chargeOps \ {op}) \cup { [op EXCEPT !.phase = "record"] }
  /\ audit' = [audit EXCEPT !.decrements =
                  @ (+) SetToBag({ Applied("device", op.trip, op.toll, op.deduction) })]
  /\ UNCHANGED << deviceVars, refVars, zoneFetch, timers, tripOps, pendingOps, syncOps,
                  storageVars, transactions, trip, events, logVars >>

\* online branch: await addDoc(collection(db, "transactions"), {...}); when the
\* call came from processPending, that function goes on: setPendingDeduction(null)
\* and AsyncStorage.removeItem('pendingDeduction')
ChargeRecordAdd(op) ==
  /\ op \in chargeOps /\ op.phase = "record"
  /\ ~ isOffline
  /\ chargeOps' = chargeOps \ {op}
  /\ transactions' = Append(transactions, Debit(op.toll, "GPS", op.trip))
  /\ IF op.pend = 0
     THEN UNCHANGED << pendingDeduction, pendingOps, storedPendingDeduction >>
     ELSE /\ pendingDeduction' = NULL
          /\ storedPendingDeduction' = NULL
          /\ pendingOps' = { o \in pendingOps : o.id # op.pend }
  /\ UNCHANGED << walletBalance, rawLocation, tripLocation, tollZones, physicallyInZone,
                  tripZone, entryPoint, isOffline, gpsStatus, refVars, zoneFetch, timers,
                  tripOps, syncOps, offlineTransactions, userWallet, trip, events, logVars, audit >>

\* the mount effect loadPendingDeduction: setPendingDeduction(JSON.parse(saved)),
\* then hook 6.  The read of local storage it awaits is started at mount and
\* is over before watchPositionAsync, which waits for the permission dialog
\* and a GPS fix, delivers its first sample.
LoadPendingDeduction ==
  /\ rawLocation = NULL
  /\ pendingDeduction = NULL /\ storedPendingDeduction # NULL
  /\ pendingDeduction' = storedPendingDeduction
  /\ pendingOps' = pendingOps \cup
        { [o EXCEPT !.id = FreeId(pendingOps)] :
          o \in PendingOps(storedPendingDeduction, walletBalance, isOffline) }
  /\ UNCHANGED << walletBalance, rawLocation, tripLocation, tollZones, physicallyInZone,
                  tripZone, entryPoint, isOffline, gpsStatus, refVars, zoneFetch, timers,
                  tripOps, chargeOps, syncOps, storageVars, firestoreVars, logVars, audit >>

\* hook 6 after its 500 ms pause: await calculateAndChargeToll(entry, exit, zone)
\* of the render in which the deduction was found affordable
ProcessPending(o) ==
  /\ o \in pendingOps /\ o.phase = "sleep"
  /\ LET cl == [isOffline |-> FALSE, walletBalance |-> o.walletBalance,
                pendingDeduction |-> << [entry |-> o.entry, exit |-> o.exit, zone |-> o.zone] >>]
         c == Charged(<< o.entry >>, << o.exit >>, o.zone, cl, o.id, 0)
         charging == (pendingOps \ {o}) \cup { [o EXCEPT !.phase = "charging"] }
     IN /\ chargeOps' = chargeOps \cup c.ops
        /\ chargeLog' = chargeLog \o c.log
        /\ walletBalance' = c.walletBalance
        /\ pendingOps' = charging \cup
              (IF c.walletBalance # walletBalance
               THEN { [p EXCEPT !.id = FreeId(charging)] :
                      p \in PendingOps(pendingDeduction, c.walletBalance, isOffline) }
               ELSE {})
  /\ UNCHANGED << rawLocation, tripLocation, tollZones, physicallyInZone, tripZone,
                  entryPoint, isOffline, pendingDeduction, gpsStatus, refVars, zoneFetch,
                  timers, tripOps, syncOps, storageVars, firestoreVars, budget, tripNo,
                  handoff, audit >>

\* the decrements the device has issued and the server has not applied yet
RECURSIVE SumAmounts(_)
SumAmounts(ops) ==
  IF ops = {} THEN 0
  ELSE LET o == CHOOSE x \in ops : TRUE IN o.amount + SumAmounts(ops \ {o})

PendingWrites ==
  SumAmounts({ [id |-> << "charge", op.id >>, amount |-> op.toll] :
               op \in { x \in chargeOps : x.phase = "wallet" } }
             \cup { [id |-> << "sync", o.id >>, amount |-> o.txs[o.i].amount] :
                    o \in { x \in syncOps : x.phase = "wallet" } })

\* the onSnapshot listener of the user document on a change that came from
\* the server: setWalletBalance(server value with the local writes on top),
\* then hook 6
UserSnapshot ==
  /\ ~ isOffline
  /\ walletBalance # << userWallet - PendingWrites >>
  /\ walletBalance' = << userWallet - PendingWrites >>
  /\ pendingOps' = pendingOps \cup
        { [o EXCEPT !.id = FreeId(pendingOps)] :
          o \in PendingOps(pendingDeduction, << userWallet - PendingWrites >>, isOffline) }
  /\ UNCHANGED << rawLocation, tripLocation, tollZones, physicallyInZone, tripZone,
                  entryPoint, isOffline, pendingDeduction, gpsStatus, refVars, zoneFetch,
                  timers, tripOps, chargeOps, syncOps, storageVars, firestoreVars,
                  logVars, audit >>

\* handleAddFunds of the wallet screen
TopUp ==
  /\ budget.topups > 0
  /\ ~ isOffline
  /\ userWallet' = userWallet + TopUpAmount
  /\ transactions' = Append(transactions,
        [amount |-> TopUpAmount, type |-> "credit", calculationMethod |-> "none", trip |-> 0])
  /\ budget' = [budget EXCEPT !.topups = @ - 1]
  /\ audit' = [audit EXCEPT !.credits = @ + TopUpAmount]
  /\ UNCHANGED << deviceVars, refVars, opVars, storageVars, trip, events, tripNo, chargeLog, handoff >>

\* ------------------------------------------------- connectivity and replay
\* hook 9: the NetInfo listener; online starts syncOfflineTransactions; hook 6
\* runs if isOffline changed
NetInfoChange(isCurrentlyOffline) ==
  /\ budget.net > 0
  /\ isOffline' = isCurrentlyOffline
  /\ syncOps' = syncOps \cup
        (IF ~ isCurrentlyOffline
         THEN { [id |-> FreeId(syncOps), phase |-> "read", txs |-> << >>, i |-> 1] } ELSE {})
  /\ pendingOps' = pendingOps \cup
        (IF isCurrentlyOffline # isOffline
         THEN { [o EXCEPT !.id = FreeId(pendingOps)] :
                o \in PendingOps(pendingDeduction, walletBalance, isCurrentlyOffline) }
         ELSE {})
  /\ budget' = [budget EXCEPT !.net = @ - 1]
  /\ audit' = [audit EXCEPT !.overlap = @ \/ (~ isCurrentlyOffline /\ syncOps # {})]
  /\ UNCHANGED << walletBalance, rawLocation, tripLocation, tollZones, physicallyInZone,
                  tripZone, entryPoint, pendingDeduction, gpsStatus, refVars, zoneFetch,
                  timers, tripOps, chargeOps, storageVars, firestoreVars, tripNo, chargeLog, handoff >>

\* updateDoc of the replay is issued: the shown balance drops at once, hook 6 runs
SyncIssue(amount) ==
  /\ walletBalance' = LocalDecrement(walletBalance, amount)
  /\ pendingOps' = pendingOps \cup
        (IF walletBalance # NULL
         THEN { [p EXCEPT !.id = FreeId(pendingOps)] :
                p \in PendingOps(pendingDeduction, LocalDecrement(walletBalance, amount), isOffline) }
         ELSE {})

\* const savedTxs = await AsyncStorage.getItem('offlineTransactions');
\* if (savedTxs === null) return; the loop issues the first updateDoc
SyncRead(o) ==
  /\ o \in syncOps /\ o.phase = "read"
  /\ IF offlineTransactions = NULL
     THEN /\ syncOps' = syncOps \ {o}
          /\ UNCHANGED << walletBalance, pendingOps >>
     ELSE /\ syncOps' = (syncOps \ {o}) \cup
                        { [o EXCEPT !.txs = offlineTransactions[1], !.phase = "wallet"] }
          /\ SyncIssue(offlineTransactions[1][1].amount)
  /\ UNCHANGED << rawLocation, tripLocation, tollZones, physicallyInZone, tripZone,
                  entryPoint, isOffline, pendingDeduction, gpsStatus, refVars, zoneFetch,
                  timers, tripOps, chargeOps, storageVars, firestoreVars, logVars, audit >>

\* await updateDoc(userDocRef, { walletBalance: increment(-tx.amount) }):
\* the server applies the decrement
SyncWalletWrite(o) ==
  /\ o \in syncOps /\ o.phase = "wallet"
  /\ ~ isOffline
  /\ userWallet' = Decremented(userWallet, walletBalance, o.txs[o.i].amount)
  /\ syncOps' = (syncOps \ {o}) \cup { [o EXCEPT !.phase = "record"] }
  /\ audit' = [audit EXCEPT !.decrements =
                  @ (+) SetToBag({ Applied("replay", o.txs[o.i].trip, o.txs[o.i].amount, NULL) })]
  /\ UNCHANGED << deviceVars, refVars, zoneFetch, timers, tripOps, chargeOps, pendingOps,
                  storageVars, transactions, trip, events, logVars >>

\* await addDoc(collection(db, "transactions"), {...}); then the next
\* updateDoc is issued, or the loop is left
SyncRecordAdd(o) ==
  /\ o \in syncOps /\ o.phase = "record"
  /\ ~ isOffline
  /\ transactions' = Append(transactions, Debit(o.txs[o.i].amount, "none", o.txs[o.i].trip))
  /\ syncOps' = (syncOps \ {o}) \cup
        { [o EXCEPT !.i = @ + 1, !.phase = IF o.i = Len(o.txs) THEN "remove" ELSE "wallet"] }
  /\ IF o.i = Len(o.txs)
     THEN UNCHANGED << walletBalance, pendingOps >>
     ELSE SyncIssue(o.txs[o.i + 1].amount)
  /\ UNCHANGED << rawLocation, tripLocation, tollZones, physicallyInZone, tripZone,
                  entryPoint, isOffline, pendingDeduction, gpsStatus, refVars, zoneFetch,
                  timers, tripOps, chargeOps, storageVars, userWallet, trip, events, logVars, audit >>

\* an updateDoc or addDoc of the loop rejects: the catch block logs the
\* error, removeItem is skipped and the stored queue stays as it was
SyncFail(o) ==
  /\ o \in syncOps /\ o.phase \in {"wallet", "record"}
  /\ syncOps' = syncOps \ {o}
  /\ UNCHANGED << deviceVars, refVars, zoneFetch, timers, tripOps, chargeOps, pendingOps,
                  storageVars, firestoreVars, logVars, audit >>

\* await AsyncStorage.removeItem('offlineTransactions')
SyncRemove(o) ==
  /\ o \in syncOps /\ o.phase = "remove"
  /\ syncOps' = syncOps \ {o}
  /\ offlineTransactions' = NULL
  /\ UNCHANGED << deviceVars, refVars, zoneFetch, timers, tripOps, chargeOps, pendingOps,
                  storedPendingDeduction, firestoreVars, logVars, audit >>

\* ------------------------------------------------- the Backend
\* an ANPR camera reports the vehicle: the camera pipeline updates
\* lastCheckpoint, Firestore hands (before, after) to calculateTollOnSighting
CameraSighting(c) ==
  /\ budget.sightings > 0
  /\ c # trip.lastCheckpoint
  /\ trip' = [trip EXCEPT !.lastCheckpoint = c]
  /\ events' = events \cup { [before |-> trip.lastCheckpoint, after |-> trip'] }
  /\ budget' = [budget EXCEPT !.sightings = @ - 1]
  /\ UNCHANGED << deviceVars, refVars, opVars, storageVars, userWallet, transactions,
                  tripNo, chargeLog, handoff, audit >>

\* haversineDistance of the Backend: 0 when a location is missing
haversineDistance(a, b) ==
  Rat(Abs(a.lat - b.lat), 1)

\* Math.max(0, Math.round(distanceMeters * TOLL_RATE_PER_METER))
segmentToll(a, b) == Max(0, MathRound(RatMul(haversineDistance(a, b), TollRatePerMeter, 1)))

\* SCENARIO 3 applies: calculationMethod === "HYBRID" && lastKnownGpsLocation
IsHybrid(after) == after.calculationMethod = "HYBRID" /\ after.lastKnownGpsLocation # NULL

\* a variant of the Backend that never defers to the device
DeviceManagedNever(after) == FALSE

\* EXIT if the app is handling it: afterData.calculationMethod === "GPS"
DeviceManaged(after) == after.calculationMethod = "GPS"

\* the segment calculateTollOnSighting charges for, NULL if it returns early
\* a variant without the first guard of the function
SameCheckpointIgnored(ev) == FALSE

\* if (beforeData.lastCheckpoint === afterData.lastCheckpoint) return
SameCheckpoint(ev) == ev.before = ev.after.lastCheckpoint

Segment(ev) ==
  LET after == ev.after
      endLocation == CameraLocation(after.lastCheckpoint)
      startLocation == IF IsHybrid(after) THEN after.lastKnownGpsLocation
                       ELSE CameraLocation(ev.before)
  IN IF SameCheckpoint(ev) THEN NULL
     ELSE IF DeviceManaged(after) THEN NULL
     ELSE IF endLocation = NULL THEN NULL
     ELSE IF startLocation = NULL THEN NULL
     ELSE IF ~ RatGt(haversineDistance(startLocation[1], endLocation[1]), 0) THEN NULL
     ELSE << [toll |-> segmentToll(startLocation[1], endLocation[1]), hybrid |-> IsHybrid(after)] >>

\* a variant that treats every vehicle as registered
RegisteredAlways(after) == TRUE

\* if (afterData.userId): the vehicle of the Trip belongs to a registered user
Registered(after) == after.userId # Unregistered

\* the refusal of the wallet transaction: walletBalance - segmentToll < 500
BackendLowBalance(balance, toll) == balance - toll < WalletFloor

\* updatePayload applied to the Trip record as it is when the transaction commits
TripPayload(t, seg, low) ==
  [t EXCEPT !.calculationMethod = IF seg.hybrid THEN "ANPR" ELSE @,
            !.lastKnownGpsLocation = IF seg.hybrid THEN NULL ELSE @,
            !.totalToll = @ + seg.toll,
            !.status = IF low THEN "pending_payment" ELSE @]

\* calculateTollOnSighting for one trigger event; the registered branch is one
\* Firestore transaction (wallet, Trip record, receipt)
\* one invocation of the function for the event ev.  Its own write to the
\* Trip record is an update as well: with notify the invocation that follows
\* it is an event of the model.
BackendRun(ev, notify) ==
  /\ ev \in events
  /\ LET seg == Segment(ev)
     IN IF seg = NULL
        THEN UNCHANGED << userWallet, transactions, trip, audit >>
        ELSE IF Registered(ev.after)
        THEN LET low == BackendLowBalance(userWallet, seg[1].toll)
             IN /\ userWallet' = IF low THEN userWallet ELSE userWallet - seg[1].toll
                /\ trip' = TripPayload(trip, seg[1], low)
                /\ transactions' = Append(transactions,
                      Debit(seg[1].toll, ev.after.calculationMethod, 0))
                /\ audit' = IF low THEN audit
                            ELSE [audit EXCEPT !.decrements =
                                    @ (+) SetToBag({ Applied("backend", 0, seg[1].toll, NULL) })]
        ELSE /\ trip' = TripPayload(trip, seg[1], FALSE)
             /\ UNCHANGED << userWallet, transactions, audit >>
  /\ events' = (events \ {ev}) \cup
               (IF notify /\ trip' # trip THEN { UpdateEvent(trip, trip') } ELSE {})
  /\ UNCHANGED << deviceVars, refVars, opVars, storageVars, logVars >>

calculateTollOnSighting(ev) == BackendRun(ev, FALSE)

calculateTollOnUpdate(ev) == BackendRun(ev, TRUE)

\* ------------------------------------------------- the specification
ZoneResults == { << "A" >> }

Budget(samples, gps, net, sightings, topups) ==
  [samples |-> samples, gps |-> gps, net |-> net, sightings |-> sightings, topups |-> topups]

\* the balance at registration, or what one earlier trip through the zone left
InitialWallets ==
  { InitialWallet, InitialWallet - calculatedToll(Loc(11, 1, 10), Loc(130, 1, 10)) }

\* a PendingDeduction a previous run of the app left in AsyncStorage
StoredPending ==
  [entry |-> Loc(0 - 19, 2, 10), exit |-> Loc(130, 1, 10), zone |-> "A"]

InitWith(b, stored, queued, owners) ==
  /\ budget = b
  /\ handoff = {}
  /\ storedPendingDeduction \in stored
  /\ walletBalance = NULL /\ rawLocation = NULL /\ tripLocation = NULL
  /\ tollZones = << >> /\ physicallyInZone = NoZone /\ tripZone = NoZone
  /\ entryPoint = NULL /\ isOffline = FALSE /\ pendingDeduction = NULL
  /\ gpsStatus = "Searching..."
  /\ locationHistoryRef = << >> /\ exitTimerRef = 0 /\ lastZoneFetchLocationRef = NULL
  /\ zoneFetch = FALSE /\ timers = {} /\ tripOps = {} /\ chargeOps = {}
  /\ pendingOps = {} /\ syncOps = {}
  /\ offlineTransactions \in queued
  /\ userWallet \in InitialWallets /\ transactions = << >>
  /\ trip \in { [userId |-> u, tollZoneId |-> "A", status |-> "active",
                  calculationMethod |-> "ANPR", lastKnownGpsLocation |-> NULL,
                  lastCheckpoint |-> "c1", totalToll |-> 0] : u \in owners }
  /\ events = {}
  /\ tripNo = 0 /\ chargeLog = << >>
  /\ audit = [wallet0 |-> userWallet, credits |-> 0, decrements |-> EmptyBag,
              overlap |-> FALSE]

Init ==
  InitWith(Budget(MaxSamples, MaxGpsEvents, MaxNetEvents, MaxSightings, MaxTopUps),
           {NULL, << StoredPending >>}, {NULL}, {Uid})

Next ==
  \/ \E s \in Samples : OnLocation(s)
  \/ \E z \in ZoneResults : ZonesFetched(z)
  \/ \E b \in BOOLEAN : CheckGpsStatus(b)
  \/ \E op \in tripOps : TripOpQuery(op)
  \/ \E op \in tripOps : TripOpWrite(op)
  \/ \E t \in timers : TimerFires(t)
  \/ \E t \in timers : TimerReadDone(t)
  \/ \E t \in timers : TimerReadFail(t)
  \/ \E op \in chargeOps : ChargeOfflineRead(op)
  \/ \E op \in chargeOps : ChargeOfflineWrite(op)
  \/ \E op \in chargeOps : ChargeWalletWrite(op)
  \/ \E op \in chargeOps : ChargeRecordAdd(op)
  \/ \E o \in pendingOps : ProcessPending(o)
  \/ LoadPendingDeduction
  \/ UserSnapshot
  \/ TopUp
  \/ \E b \in BOOLEAN : NetInfoChange(b)
  \/ \E o \in syncOps : SyncRead(o)
  \/ \E o \in syncOps : SyncWalletWrite(o)
  \/ \E o \in syncOps : SyncRecordAdd(o)
  \/ \E o \in syncOps : SyncFail(o)
  \/ \E o \in syncOps : SyncRemove(o)
  \/ \E c \in Cameras : CameraSighting(c)
  \/ \E ev \in events : calculateTollOnSighting(ev)

Spec == Init /\ [][Next]_vars

\* ------------------------------------------------- scenarios
\* One drive through the zone with every kind of sample; the ledger is online.
TripSamples == 4

InitTrip == InitWith(Budget(TripSamples, 0, 0, 0, 0), {NULL}, {NULL}, {Uid})

NextTrip ==
  \/ \E s \in Samples : OnLocation(s)
  \/ \E z \in ZoneResults : ZonesFetched(z)
  \/ \E op \in tripOps : TripOpQuery(op)
  \/ \E op \in tripOps : TripOpWrite(op)
  \/ \E t \in timers : TimerFires(t)
  \/ \E t \in timers : TimerReadDone(t)
  \/ \E op \in chargeOps : ChargeWalletWrite(op)
  \/ \E op \in chargeOps : ChargeRecordAdd(op)
  \/ UserSnapshot

SpecTrip == InitTrip /\ [][NextTrip]_vars

\* GPS hardware going off and on, the camera pipeline and the Backend.
HandoffSamples == 3
HandoffGpsEvents == 1
HandoffSightings == 1

InitHandoff ==
  InitWith(Budget(HandoffSamples, HandoffGpsEvents, 0, HandoffSightings, 0), {NULL}, {NULL}, {Uid})

NextHandoff ==
  \/ \E s \in GoodSamples : OnLocation(s)
  \/ \E z \in ZoneResults : ZonesFetched(z)
  \/ \E b \in BOOLEAN : CheckGpsStatus(b)
  \/ \E op \in tripOps : TripOpQuery(op)
  \/ \E op \in tripOps : TripOpWrite(op)
  \/ \E t \in timers : TimerFires(t)
  \/ \E t \in timers : TimerReadDone(t)
  \/ \E op \in chargeOps : ChargeWalletWrite(op)
  \/ \E op \in chargeOps : ChargeRecordAdd(op)
  \/ \E c \in Cameras : CameraSighting(c)
  \/ \E ev \in events : calculateTollOnSighting(ev)

SpecHandoff == InitHandoff /\ [][NextHandoff]_vars

\* Connectivity: the offline queue and its replay.
OfflineSamples == 2
OfflineNetEvents == 3

InitOffline == InitWith(Budget(OfflineSamples, 0, OfflineNetEvents, 0, 0), {NULL}, {NULL}, {Uid})

NextOffline ==
  \/ \E s \in GoodSamples : OnLocation(s)
  \/ \E z \in ZoneResults : ZonesFetched(z)
  \/ \E op \in tripOps : TripOpQuery(op)
  \/ \E op \in tripOps : TripOpWrite(op)
  \/ \E t \in timers : TimerFires(t)
  \/ \E t \in timers : TimerReadDone(t)
  \/ \E op \in chargeOps : ChargeOfflineRead(op)
  \/ \E op \in chargeOps : ChargeOfflineWrite(op)
  \/ \E op \in chargeOps : ChargeWalletWrite(op)
  \/ \E op \in chargeOps : ChargeRecordAdd(op)
  \/ UserSnapshot
  \/ \E b \in BOOLEAN : NetInfoChange(b)
  \/ \E o \in syncOps : SyncRead(o)
  \/ \E o \in syncOps : SyncWalletWrite(o)
  \/ \E o \in syncOps : SyncRecordAdd(o)
  \/ \E o \in syncOps : SyncRemove(o)

SpecOffline == InitOffline /\ [][NextOffline]_vars

\* Replay with failures: a queue an earlier run of the app left in
\* AsyncStorage, one more trip, and replays whose writes may be rejected.
ReplaySamples == 2
ReplayNetEvents == 2

\* an OfflineTransaction queued before this run (its trip number, like the
\* timestamp field of the source, tells the order of enqueueing)
StoredOfflineTx == [zone |-> "A", amount |-> 50, trip |-> 0]

InitReplay ==
  InitWith(Budget(ReplaySamples, 0, ReplayNetEvents, 0, 0), {NULL}, {<< << StoredOfflineTx >> >>}, {Uid})

NextReplay ==
  \/ \E s \in GoodSamples : OnLocation(s)
  \/ \E z \in ZoneResults : ZonesFetched(z)
  \/ \E op \in tripOps : TripOpQuery(op)
  \/ \E op \in tripOps : TripOpWrite(op)
  \/ \E t \in timers : TimerFires(t)
  \/ \E t \in timers : TimerReadDone(t)
  \/ \E op \in chargeOps : ChargeOfflineRead(op)
  \/ \E op \in chargeOps : ChargeOfflineWrite(op)
  \/ \E op \in chargeOps : ChargeWalletWrite(op)
  \/ \E op \in chargeOps : ChargeRecordAdd(op)
  \/ UserSnapshot
  \/ \E b \in BOOLEAN : NetInfoChange(b)
  \/ \E o \in syncOps : SyncRead(o)
  \/ \E o \in syncOps : SyncWalletWrite(o)
  \/ \E o \in syncOps : SyncRecordAdd(o)
  \/ \E o \in syncOps : SyncFail(o)
  \/ \E o \in syncOps : SyncRemove(o)

SpecReplay == InitReplay /\ [][NextReplay]_vars

\* Low balance: the PendingDeduction, top-ups and processPending.
PendingSamples == 2
PendingTopUps == 1

InitPending ==
  InitWith(Budget(PendingSamples, 0, 0, 0, PendingTopUps), {NULL, << StoredPending >>}, {NULL}, {Uid})

NextPending ==
  \/ \E s \in GoodSamples : OnLocation(s)
  \/ \E z \in ZoneResults : ZonesFetched(z)
  \/ \E op \in tripOps : TripOpQuery(op)
  \/ \E op \in tripOps : TripOpWrite(op)
  \/ \E t \in timers : TimerFires(t)
  \/ \E t \in timers : TimerReadDone(t)
  \/ \E op \in chargeOps : ChargeWalletWrite(op)
  \/ \E op \in chargeOps : ChargeRecordAdd(op)
  \/ \E o \in pendingOps : ProcessPending(o)
  \/ LoadPendingDeduction
  \/ UserSnapshot
  \/ TopUp

SpecPending == InitPending /\ [][NextPending]_vars

\* Device and Backend on one wallet: a camera sighting of the trip is being
\* processed while the device drives through the zone and charges.
RaceSamples == 2
RaceSightings == 1

InitRace == InitWith(Budget(RaceSamples, 0, 0, RaceSightings, 0), {NULL}, {NULL}, {Uid})

NextRace ==
  \/ \E s \in GoodSamples : OnLocation(s)
  \/ \E z \in ZoneResults : ZonesFetched(z)
  \/ \E op \in tripOps : TripOpQuery(op)
  \/ \E op \in tripOps : TripOpWrite(op)
  \/ \E t \in timers : TimerFires(t)
  \/ \E t \in timers : TimerReadDone(t)
  \/ \E op \in chargeOps : ChargeWalletWrite(op)
  \/ \E op \in chargeOps : ChargeRecordAdd(op)
  \/ UserSnapshot
  \/ \E c \in Cameras : CameraSighting(c)
  \/ \E ev \in events : calculateTollOnSighting(ev)

SpecRace == InitRace /\ [][NextRace]_vars

\* The Backend after a handoff: the GPS hardware goes off inside the zone
\* and two cameras report the vehicle.
BackendSamples == 1
BackendGpsEvents == 1
BackendSightings == 2

InitBackend ==
  InitWith(Budget(BackendSamples, BackendGpsEvents, 0, BackendSightings, 0), {NULL}, {NULL},
           {Uid, Unregistered})

NextBackend ==
  \/ \E s \in GoodSamples : OnLocation(s)
  \/ \E z \in ZoneResults : ZonesFetched(z)
  \/ \E b \in BOOLEAN : CheckGpsStatus(b)
  \/ \E op \in tripOps : TripOpQuery(op)
  \/ \E op \in tripOps : TripOpWrite(op)
  \/ \E c \in AllCameras : CameraSighting(c)
  \/ \E ev \in events : calculateTollOnSighting(ev)

SpecBackend == InitBackend /\ [][NextBackend]_vars

\* The end of the grace period with every outcome of the charge: one drive
\* through the zone and back into it, the device going offline once.  The
\* callback of an expired timer awaits one getDocs, which resolves (from the
\* server or the cache) or rejects into the catch block: the callback runs to
\* its end, hence the weak fairness of TimerReadDone, written out with its
\* guard for ENABLED.
GraceSamples == 3
GraceNetEvents == 1

InitGrace == InitWith(Budget(GraceSamples, 0, GraceNetEvents, 0, 0), {NULL}, {NULL}, {Uid})

NextGrace ==
  \/ \E s \in GoodSamples : OnLocation(s)
  \/ \E z \in ZoneResults : ZonesFetched(z)
  \/ \E op \in tripOps : TripOpQuery(op)
  \/ \E op \in tripOps : TripOpWrite(op)
  \/ \E t \in timers : TimerFires(t)
  \/ \E t \in timers : TimerReadDone(t)
  \/ \E op \in chargeOps : ChargeOfflineRead(op)
  \/ \E op \in chargeOps : ChargeOfflineWrite(op)
  \/ \E op \in chargeOps : ChargeWalletWrite(op)
  \/ \E op \in chargeOps : ChargeRecordAdd(op)
  \/ UserSnapshot
  \/ NetInfoChange(TRUE)

\* the callback of an expired timer is past its deadline
TimerReadDoneEnabled == \E t \in timers : t.phase = "reading"

FairGrace ==
  /\ InitGrace /\ [][NextGrace]_vars
  /\ \/ []<>(~ TimerReadDoneEnabled)
     \/ []<><< \E t \in timers : TimerReadDone(t) >>_vars

\* Settling a stored PendingDeduction: the app starts with a deduction an
\* earlier run left behind, the user may top up, the device stays online.
SettleTopUps == 1

InitSettle ==
  InitWith(Budget(0, 0, 0, 0, SettleTopUps), {<< StoredPending >>}, {NULL}, {Uid})

NextSettle ==
  \/ \E op \in chargeOps : ChargeWalletWrite(op)
  \/ \E op \in chargeOps : ChargeRecordAdd(op)
  \/ \E o \in pendingOps : ProcessPending(o)
  \/ LoadPendingDeduction
  \/ UserSnapshot
  \/ TopUp

\* a processPending is in its 500 ms pause: the guard of ProcessPending
ProcessPendingEnabled == \E o \in pendingOps : o.phase = "sleep"

\* The 500 ms pause of processPending ends and the Firestore writes of an
\* online device complete: weak fairness of the three steps.  That of
\* ProcessPending is written out, WF_vars(A) being
\* []<>(~ ENABLED <<A>>_vars) \/ []<><<A>>_vars, with the guard for ENABLED.
FairSettle ==
  /\ InitSettle /\ [][NextSettle]_vars
  /\ \/ []<>(~ ProcessPendingEnabled)
     \/ []<><< \E o \in pendingOps : ProcessPending(o) >>_vars
  /\ WF_vars(\E op \in chargeOps : ChargeWalletWrite(op))
  /\ WF_vars(\E op \in chargeOps : ChargeRecordAdd(op))

\* ------------------------------------------------- properties
\* the charge requests among the outcomes of the grace callbacks
ChargeBranches == {"offline", "low", "online"}

\* C1 (as stated): a sample inside the zone of the trip that arrives while the
\* grace timer is still scheduled cancels the timer; the trip keeps its zone
\* and its entry point, and no charge request is made.
C1_ReentryCancelsGrace ==
  [][ ( /\ \E t \in timers : t.phase = "scheduled"
        /\ tripZone # NoZone
        /\ rawLocation' # rawLocation
        /\ physicallyInZone' = tripZone )
      => ( /\ \A t \in timers' : t.phase # "scheduled"
           /\ exitTimerRef' = 0
           /\ tripZone' = tripZone /\ entryPoint' = entryPoint
           /\ chargeLog' = chargeLog /\ chargeOps' = chargeOps ) ]_vars

\* C2: when the grace callback of a trip with entry point A and captured exit
\* point B finds the Trip record device-managed ("GPS"), it makes exactly one
\* charge request, the first of that trip, and its amount is
\* round(max(0, distance(A, B) * 50 / 20)).
C2_OneChargeForTheDistance ==
  [][ \A t \in timers :
        ( /\ t.phase = "reading" /\ t \notin timers'
          /\ ActiveTrip(t.zone) /\ trip.calculationMethod = "GPS"
          /\ t.entry # NULL /\ t.exit # NULL )
        => ( /\ t.entry = entryPoint
             /\ \A i \in DOMAIN chargeLog : chargeLog[i].trip # t.trip
             /\ Len(chargeLog') = Len(chargeLog) + 1
             /\ LET c == chargeLog'[Len(chargeLog')]
                IN /\ c.trip = t.trip /\ c.branch \in ChargeBranches
                   /\ c.toll = MathRound(RatMax0(RatMul(getDistance(t.entry[1], t.exit[1]),
                                                        RateNum, RateDen))) ) ]_vars

\* C2, witness: two samples (inside, then outside), the deadline has passed and
\* the charge of a positive amount has been applied and recorded.
C2_Witness ==
  /\ budget.samples = TripSamples - 2
  /\ tripZone = NoZone /\ physicallyInZone = NoZone /\ timers = {}
  /\ trip.calculationMethod = "GPS"
  /\ Len(chargeLog) = 1 /\ chargeLog[1].branch = "online" /\ chargeLog[1].toll > 0
  /\ Len(transactions) = 1 /\ transactions[1].amount = chargeLog[1].toll

\* C3: at most one grace timer is pending at any time, and the grace callbacks
\* of one trip make at most one charge request.
C3_OneTimerOneCharge ==
  /\ Cardinality(timers) <= 1
  /\ \A i, j \in DOMAIN chargeLog :
        (chargeLog[i].trip = chargeLog[j].trip /\ chargeLog[i].pend = 0
         /\ chargeLog[j].pend = 0) => i = j

\* C3, witness: the exit branch has run again (tripLocation has moved on since
\* the timer captured its exit point) with the timer still pending.
C3_Witness ==
  /\ physicallyInZone = NoZone /\ tripZone # NoZone
  /\ \E t \in timers : t.phase = "scheduled" /\ t.exit # tripLocation

\* C4: when the re-read at the deadline returns an active Trip record whose
\* calculationMethod is not "GPS", the callback charges nothing: no operation
\* is started, no PendingDeduction is stored, wallet and ledger are untouched.
C4_NoChargeWhenNotDevice ==
  [][ \A t \in timers :
        ( /\ t.phase = "reading" /\ t \notin timers'
          /\ ActiveTrip(t.zone) /\ trip.calculationMethod # "GPS" )
        => ( /\ chargeOps' = chargeOps
             /\ pendingDeduction' = pendingDeduction
             /\ storedPendingDeduction' = storedPendingDeduction
             /\ walletBalance' = walletBalance /\ userWallet' = userWallet
             /\ transactions' = transactions
             /\ offlineTransactions' = offlineTransactions
             /\ chargeLog'[Len(chargeLog')].branch \notin ChargeBranches ) ]_vars

\* C4, witness: a trip with both points known has ended at its deadline
\* without a charge, the Trip record being camera-managed.
C4_Witness ==
  /\ \E i \in DOMAIN chargeLog : chargeLog[i].branch = "suppressed"
  /\ trip.calculationMethod # "GPS"
  /\ chargeOps = {} /\ transactions = << >> /\ userWallet \in InitialWallets

\* C5 (as stated): once the handoff write of a trip has reached the Trip record,
\* the grace callback of that trip starts no charge, whatever the order of the
\* device's Trip-record writes and the Backend's updates.
C5_NoDeviceChargeAfterHandoff ==
  [][ \A t \in timers :
        (t.phase = "reading" /\ t \notin timers' /\ t.trip \in handoff)
        => (chargeOps' = chargeOps /\ pendingDeduction' = pendingDeduction) ]_vars

\* C6 (as stated): calculationMethod becomes "GPS" only by the entry marking of
\* a trip that has not handed off; after the handoff of a trip nothing of that
\* trip sets it back.
C6_NoReturnToDevice ==
  [][ (trip.calculationMethod # "GPS" /\ trip'.calculationMethod = "GPS")
      => \E op \in tripOps : /\ op.kind = "mark" /\ op.phase = "write"
                             /\ op \notin tripOps' /\ op.trip \notin handoff ]_vars

\* C7: whenever hook 8 sees the hardware Disconnected inside a zone with a raw
\* location, saveLastGpsLocation is started for that zone and that location;
\* when its query finds the active Trip record it goes on to the write; and
\* the write leaves calculationMethod = "HYBRID" and lastKnownGpsLocation
\* equal to the coordinate of that raw location.
C7_HandoffOnDisconnect ==
  [][ /\ ( /\ << physicallyInZone, gpsStatus, rawLocation >>'
               # << physicallyInZone, gpsStatus, rawLocation >>
            /\ physicallyInZone' # NoZone /\ gpsStatus' = "Disconnected"
            /\ rawLocation' # NULL )
         => \E op \in tripOps' : /\ op.kind = "save" /\ op.phase = "query"
                                 /\ op.zone = physicallyInZone' /\ op.loc = rawLocation'
      /\ \A op \in tripOps :
           (op.kind = "save" /\ op.phase = "query" /\ op \notin tripOps' /\ ActiveTrip(op.zone))
           => [op EXCEPT !.phase = "write"] \in tripOps'
      /\ \A op \in tripOps :
           (op.kind = "save" /\ op.phase = "write" /\ op \notin tripOps')
           => /\ trip'.calculationMethod = "HYBRID"
              /\ trip'.lastKnownGpsLocation = << Point(op.loc[1].lat, op.loc[1].lng) >> ]_vars

\* C7, witness: the hardware is off inside the zone and the Trip record holds
\* "HYBRID" and the coordinate of the last raw location.
C7_Witness ==
  /\ gpsStatus = "Disconnected" /\ physicallyInZone # NoZone /\ rawLocation # NULL
  /\ handoff # {}
  /\ trip.calculationMethod = "HYBRID"
  /\ trip.lastKnownGpsLocation = << Point(rawLocation[1].lat, rawLocation[1].lng) >>

\* C8 (as stated): no decrement takes a wallet of at least 500 below 500.
C8_WalletFloor ==
  [][ (userWallet >= WalletFloor /\ userWallet' < userWallet)
      => userWallet' >= WalletFloor ]_vars

\* the grace callback t completes and calls calculateAndChargeToll online with
\* a balance b and an amount a such that b - a < 500
LowBalanceCharge(t) ==
  /\ t.phase = "reading" /\ canCharge(t.zone)
  /\ t.entry # NULL /\ t.exit # NULL
  /\ ~ t.isOffline /\ t.walletBalance # NULL
  /\ t.walletBalance[1] - calculatedToll(t.entry[1], t.exit[1]) < WalletFloor

\* C9 (as stated): a low-balance online charge leaves the wallet and the
\* transaction records alone and becomes the PendingDeduction.
C9_LowBalanceDeferred ==
  [][ \A t \in timers :
        (LowBalanceCharge(t) /\ t \notin timers')
        => ( /\ userWallet' = userWallet /\ transactions' = transactions
             /\ chargeOps' = chargeOps
             /\ pendingDeduction' =
                  << [entry |-> t.entry[1], exit |-> t.exit[1], zone |-> t.zone] >> ) ]_vars

\* C9 (amended): a low-balance online charge, the balance being the one the
\* charging render holds, leaves the wallet and the transaction records alone;
\* it becomes the PendingDeduction (state and AsyncStorage) when that render
\* holds none, and is dropped when it holds one.
C9_LowBalanceDeferredOrDropped ==
  [][ \A t \in timers :
        (LowBalanceCharge(t) /\ t \notin timers')
        => ( /\ userWallet' = userWallet /\ transactions' = transactions
             /\ chargeOps' = chargeOps /\ walletBalance' = walletBalance
             /\ IF t.pendingDeduction = NULL
                THEN /\ pendingDeduction' =
                          << [entry |-> t.entry[1], exit |-> t.exit[1], zone |-> t.zone] >>
                     /\ storedPendingDeduction' = pendingDeduction'
                ELSE /\ pendingDeduction' = pendingDeduction
                     /\ storedPendingDeduction' = storedPendingDeduction ) ]_vars

\* C9, witness: a low-balance charge was made while the deduction of an
\* earlier run was outstanding; wallet and records are as they were.
C9_Witness ==
  /\ \E i \in DOMAIN chargeLog : chargeLog[i].branch = "low"
  /\ pendingDeduction = << StoredPending >>
  /\ storedPendingDeduction = << StoredPending >>
  /\ transactions = << >> /\ userWallet \in InitialWallets

\* C10 (as stated): a grace callback that charges while the device is offline
\* starts the offline branch (one OfflineTransaction for the trip) and leaves
\* the balance alone.
C10_OfflineChargeQueued ==
  [][ \A t \in timers :
        ( /\ t.phase = "reading" /\ t \notin timers' /\ isOffline
          /\ canCharge(t.zone) /\ t.entry # NULL /\ t.exit # NULL )
        => ( /\ \E op \in chargeOps' : /\ op \notin chargeOps /\ op.phase = "offRead"
                                        /\ op.trip = t.trip
             /\ walletBalance' = walletBalance
             /\ pendingDeduction' = pendingDeduction ) ]_vars

\* how many decrements replays applied for the OfflineTransaction of trip n
ReplayDecrements(n, amount) ==
  CopiesIn(Applied("replay", n, amount, NULL), audit.decrements)

\* the debit records a replay appended for the OfflineTransaction of trip n
ReplayRecords(n, amount) ==
  { i \in DOMAIN transactions : transactions[i] = Debit(amount, "none", n) }

\* the device is online, nothing is in flight and the stored queue is gone
ReplaySettled ==
  ~ isOffline /\ syncOps = {} /\ chargeOps = {} /\ offlineTransactions = NULL

\* C11 (as stated): once the device is online again and the replay of a
\* non-empty queue has run to its end without a failed write, every trip that
\* was queued offline has exactly one wallet decrement of its toll and exactly
\* one debit record, and the queue is empty.
C11_ReplayExactlyOnce ==
  ReplaySettled =>
    \A i \in DOMAIN chargeLog :
      chargeLog[i].branch = "offline" =>
        /\ ReplayDecrements(chargeLog[i].trip, chargeLog[i].toll) = 1
        /\ Cardinality(ReplayRecords(chargeLog[i].trip, chargeLog[i].toll)) = 1

\* C12 (as stated): when replays do not overlap but a write of one of them
\* is rejected, no OfflineTransaction is decremented from the wallet a second
\* time by a later replay.
C12_NoSecondApplication ==
  ~ audit.overlap =>
    \A a \in BagToSet(audit.decrements) :
      a.by = "replay" => CopiesIn(a, audit.decrements) = 1

\* the OfflineTransactions enqueued so far, those of an earlier run included
Enqueued ==
  { StoredOfflineTx } \cup
  { [zone |-> "A", amount |-> chargeLog[i].toll, trip |-> chargeLog[i].trip] :
      i \in { k \in DOMAIN chargeLog : chargeLog[k].branch = "offline" } }

\* C13: replay is first in, first out.  Whenever a replay decrements the
\* wallet for a queued entry j, every entry i of its queue that was enqueued
\* before j has already been decremented and recorded, and the entry a charge
\* adds to the stored queue goes behind the entries already there.
C13_ReplayFifo ==
  [][ \A o \in syncOps :
        ( /\ o.phase = "wallet"
          /\ audit.decrements' = audit.decrements (+)
                SetToBag({ Applied("replay", o.txs[o.i].trip, o.txs[o.i].amount, NULL) }) )
        => \A k \in DOMAIN o.txs :
             o.txs[k].trip < o.txs[o.i].trip =>
               /\ k < o.i
               /\ ReplayDecrements(o.txs[k].trip, o.txs[k].amount) > 0
               /\ ReplayRecords(o.txs[k].trip, o.txs[k].amount) # {} ]_vars

\* C13, witness: a replay has applied and recorded the entry of the earlier
\* run and, after it, the entry of this run's trip.
C13_Witness ==
  \E e \in Enqueued :
    /\ e.trip > StoredOfflineTx.trip
    /\ ReplayDecrements(StoredOfflineTx.trip, StoredOfflineTx.amount) > 0
    /\ ReplayDecrements(e.trip, e.amount) > 0
    /\ \E i \in ReplayRecords(StoredOfflineTx.trip, StoredOfflineTx.amount) :
       \E j \in ReplayRecords(e.trip, e.amount) : i < j

\* how many decrements the device applied for the PendingDeduction pd
PendingDecrements(pd) ==
  CopiesIn(Applied("device", 0, calculatedToll(pd[1].entry, pd[1].exit), pd),
           audit.decrements)

\* C14 (as stated): a PendingDeduction is applied to the wallet at most once.
\* The run holds at most one deduction of these coordinates (the stored one,
\* or the one its single trip leaves), so two decrements for the same
\* coordinates are two applications of one deduction.
C14_PendingAppliedOnce ==
  \A a \in BagToSet(audit.decrements) :
    a.deduction # NULL => PendingDecrements(a.deduction) = 1

\* the condition of hook 6 on the state the device is in
Affordable ==
  /\ pendingDeduction # NULL /\ ~ isOffline /\ walletBalance # NULL
  /\ walletBalance[1] - calculatedToll(pendingDeduction[1].entry, pendingDeduction[1].exit)
       >= WalletFloor

\* the deduction pd went through the charge path and is gone from the device
Settled(pd) ==
  /\ pendingDeduction = NULL /\ storedPendingDeduction = NULL
  /\ PendingDecrements(pd) > 0
  /\ \E i \in DOMAIN transactions :
       transactions[i] = Debit(calculatedToll(pd[1].entry, pd[1].exit), "GPS", 0)

\* C15: whenever a PendingDeduction is outstanding, the device is online and
\* the balance it shows covers the toll above the floor of 500, the deduction
\* is eventually charged (wallet decrement, debit record) and cleared from
\* memory and from local storage.
C15_PendingEventuallySettled ==
  (Affordable /\ pendingDeduction = << StoredPending >>) ~> Settled(<< StoredPending >>)

\* C15, witness: a wallet of 702 could not afford the stored deduction of
\* 349; after a top-up it was charged and cleared.
C15_Witness ==
  /\ audit.wallet0 < WalletFloor + calculatedToll(StoredPending.entry, StoredPending.exit)
  /\ audit.credits > 0
  /\ Settled(<< StoredPending >>)

\* C16: the device holds at most one PendingDeduction, the same in memory and
\* in local storage, and a low-balance charge made while one is outstanding
\* leaves that record as it is and starts nothing for the new toll.
C16_OnePendingDeduction ==
  /\ [](pendingDeduction # NULL => storedPendingDeduction = pendingDeduction)
  /\ [][ \A t \in timers :
          (LowBalanceCharge(t) /\ t \notin timers' /\ pendingDeduction # NULL)
          => ( /\ pendingDeduction' = pendingDeduction
               /\ storedPendingDeduction' = storedPendingDeduction
               /\ chargeOps' = chargeOps /\ pendingOps' = pendingOps
               /\ offlineTransactions' = offlineTransactions ) ]_vars

\* C16, witness: the trip of this run ended in a low-balance charge of another
\* amount than the outstanding deduction, which is still the only one.
C16_Witness ==
  /\ \E i \in DOMAIN chargeLog :
       /\ chargeLog[i].branch = "low"
       /\ chargeLog[i].toll # calculatedToll(StoredPending.entry, StoredPending.exit)
  /\ pendingDeduction = << StoredPending >>
  /\ storedPendingDeduction = << StoredPending >>
  /\ timers = {} /\ chargeOps = {} /\ pendingOps = {}

\* the sum of the decrements of a bag of applied charges
RECURSIVE AppliedTotal(_)
AppliedTotal(bag) ==
  IF BagToSet(bag) = {} THEN 0
  ELSE LET a == CHOOSE x \in BagToSet(bag) : TRUE
       IN a.amount + AppliedTotal(bag (-) SetToBag({a}))

\* C17: whatever the interleaving of the charges of the device and of the
\* Backend, the balance on the server is the initial balance, plus the
\* top-ups, minus the sum of all charges applied.
C17_NoLostUpdate ==
  userWallet = audit.wallet0 + audit.credits - AppliedTotal(audit.decrements)

\* C17, witness: the Backend charged a segment after the device had read the
\* balance for its own charge and before the device's decrement was applied.
C17_Witness ==
  /\ \E a \in BagToSet(audit.decrements) : a.by = "backend"
  /\ \E op \in chargeOps :
       /\ op.phase = "record" /\ op.seen # NULL
       /\ op.seen[1] - op.toll # userWallet

\* the debit records the device appended for a charge of trip n
DeviceRecords(n, amount) ==
  { i \in DOMAIN transactions : transactions[i] = Debit(amount, "GPS", n) }

\* C18 (as stated): in every reachable state each wallet decrement of an
\* online device charge has its debit record of the same amount, and each
\* such record its decrement.
C18_DecrementWithRecord ==
  /\ \A a \in BagToSet(audit.decrements) :
       a.by = "device" =>
         Cardinality(DeviceRecords(a.trip, a.amount)) = CopiesIn(a, audit.decrements)
  /\ \A i \in DOMAIN transactions :
       transactions[i].calculationMethod = "GPS" =>
         \E a \in BagToSet(audit.decrements) :
           a.by = "device" /\ transactions[i] = Debit(a.amount, "GPS", a.trip)

\* C19: when calculateTollOnSighting handles a camera sighting of a Trip
\* whose calculationMethod is "GPS", the wallet, the transaction records and
\* the Trip record stay as they are.
C19_BackendLeavesDeviceTrips ==
  [][ \A ev \in events :
        ( /\ ev \notin events'
          /\ ev.before # ev.after.lastCheckpoint
          /\ ev.after.calculationMethod = "GPS" )
        => ( userWallet' = userWallet /\ transactions' = transactions /\ trip' = trip ) ]_vars

\* C19, witness: the only sighting of the run was of a device-managed Trip
\* and has been handled; nothing was charged.
C19_Witness ==
  /\ budget.sightings = 0 /\ events = {}
  /\ trip.calculationMethod = "GPS" /\ trip.lastCheckpoint = "c2"
  /\ trip.totalToll = 0 /\ transactions = << >> /\ userWallet = audit.wallet0

\* C20 (as stated): a sighting charged from the handoff anchor finds the
\* anchor still on the Trip record and removes it, setting the method back to
\* camera-based, so that no later sighting is charged from that anchor.
C20_AnchorUsedOnce ==
  [][ \A ev \in events :
        ( ev \notin events' /\ Segment(ev) # NULL /\ Segment(ev)[1].hybrid )
        => ( /\ trip.lastKnownGpsLocation = ev.after.lastKnownGpsLocation
             /\ trip'.calculationMethod = "ANPR"
             /\ trip'.lastKnownGpsLocation = NULL ) ]_vars

\* calculateTollOnSighting handles ev in this step and has a segment to charge
\* to a registered user
BackendCharges(ev) ==
  ev \in events /\ ev \notin events' /\ Segment(ev) # NULL /\ Registered(ev.after)

\* C21 (as stated): a segment toll that would take the registered user's
\* balance below 500 is refused by the Backend: the balance stays and no
\* debit record is written for it.
C21_BackendLowBalanceRefused ==
  [][ \A ev \in events :
        (BackendCharges(ev) /\ BackendLowBalance(userWallet, Segment(ev)[1].toll))
        => (userWallet' = userWallet /\ transactions' = transactions) ]_vars

\* the toll of the segment of a sighting whose two ends are known
SightingToll(ev) ==
  LET start == IF IsHybrid(ev.after) THEN ev.after.lastKnownGpsLocation
               ELSE CameraLocation(ev.before)
  IN segmentToll(start[1], CameraLocation(ev.after.lastCheckpoint)[1])

\* C22: a sighting whose new camera, or in camera-based mode whose previous
\* camera, has no registered location changes neither the wallet, nor the
\* records, nor the Trip record; a sighting with both ends known on a Trip the
\* Backend manages is charged its segment whatever was aborted before (added
\* to totalToll, and recorded as a debit when the user is registered).
C22_MissingCameraAbortsSegment ==
  [][ \A ev \in events :
        (ev \notin events' /\ ev.before # ev.after.lastCheckpoint)
        => IF \/ ev.after.lastCheckpoint \notin Cameras
              \/ (~ IsHybrid(ev.after) /\ ev.before \notin Cameras)
           THEN userWallet' = userWallet /\ transactions' = transactions /\ trip' = trip
           ELSE (~ DeviceManaged(ev.after) /\ SightingToll(ev) > 0)
                => /\ trip'.totalToll = trip.totalToll + SightingToll(ev)
                   /\ Registered(ev.after) =>
                        transactions' = Append(transactions,
                          Debit(SightingToll(ev), ev.after.calculationMethod, 0)) ]_vars

\* C22, witness: after the handoff camera c3, which has no location, reported
\* the vehicle and then camera c2 did; only the segment anchor -> c2 was
\* charged.
C22_Witness ==
  /\ budget.sightings = 0 /\ events = {}
  /\ trip.lastCheckpoint = "c2"
  /\ Len(transactions) = 1 /\ transactions[1].calculationMethod = "HYBRID"
  /\ trip.totalToll = transactions[1].amount

\* C23: a sighting of a Trip without a registered user adds the segment toll
\* to totalToll of the Trip record and does nothing else: no wallet changes
\* and no transaction record is appended.
C23_UnregisteredAccruesOnTrip ==
  [][ \A ev \in events :
        (ev \notin events' /\ ev.after.userId = Unregistered)
        => /\ userWallet' = userWallet /\ transactions' = transactions
           /\ trip' = IF Segment(ev) = NULL THEN trip
                      ELSE [trip EXCEPT !.totalToll = @ + Segment(ev)[1].toll] ]_vars

\* C23, witness: both sightings of an unregistered vehicle were handled; the
\* Trip record carries the toll, the wallet of the model's user is untouched.
C23_Witness ==
  /\ trip.userId = Unregistered /\ events = {} /\ budget.sightings = 0
  /\ trip.totalToll > 0 /\ transactions = << >> /\ userWallet = audit.wallet0

\* the grace deadline of trip n has passed, its callback is running
GraceElapsed(n) == \E t \in timers : t.phase = "reading" /\ t.trip = n

\* the machine is in NoTrip
NoTrip == tripZone = NoZone /\ entryPoint = NULL /\ exitTimerRef = 0

\* trip n is over: its callback has run, and the machine is in NoTrip or has
\* started a later trip from there
TripClosed(n) ==
  /\ \A t \in timers : t.trip # n
  /\ \E i \in DOMAIN chargeLog : chargeLog[i].trip = n
  /\ NoTrip \/ tripNo > n

\* C24: once the grace deadline of a trip has passed, the trip is eventually
\* closed (tripZone, entryPoint and the timer handle cleared) whatever became
\* of the charge, and from NoTrip the next membership in a zone starts a new
\* trip in that zone.
C24_GraceEndsInNoTrip ==
  /\ \A n \in 1..GraceSamples : GraceElapsed(n) ~> TripClosed(n)
  /\ [][ (NoTrip /\ physicallyInZone' # NoZone)
          => (tripZone' = physicallyInZone' /\ entryPoint' # NULL /\ tripNo' = tripNo + 1) ]_vars

\* C24, witness: the first trip was closed with its charge queued offline and
\* the vehicle, back in the zone, is on its second trip.
C24_Witness ==
  /\ tripNo = 2 /\ tripZone = "A" /\ entryPoint # NULL
  /\ \E i \in DOMAIN chargeLog : chargeLog[i].trip = 1 /\ chargeLog[i].branch = "offline"

\* A drive during which the zone query is answered with or without the zone.
RefreshSamples == 3

\* what setTollZones can receive: the zone, or no zone at all
RefreshResults == { << >>, << "A" >> }

InitRefresh == InitWith(Budget(RefreshSamples, 0, 0, 0, 0), {NULL}, {NULL}, {Uid})

NextRefresh ==
  \/ \E s \in GoodSamples : OnLocation(s)
  \/ \E z \in RefreshResults : ZonesFetched(z)
  \/ \E op \in tripOps : TripOpQuery(op)
  \/ \E op \in tripOps : TripOpWrite(op)
  \/ \E t \in timers : TimerFires(t)
  \/ \E t \in timers : TimerReadDone(t)
  \/ \E op \in chargeOps : ChargeWalletWrite(op)
  \/ \E op \in chargeOps : ChargeRecordAdd(op)
  \/ UserSnapshot

SpecRefresh == InitRefresh /\ [][NextRefresh]_vars

\* One trip charged online or offline, with or without a PendingDeduction of
\* an earlier run in storage that the balance can pay.
FareSamples == 2
FareNetEvents == 2

InitFare ==
  InitWith(Budget(FareSamples, 0, FareNetEvents, 0, 0), {NULL, << StoredPending >>}, {NULL}, {Uid})

NextFare ==
  \/ \E s \in GoodSamples : OnLocation(s)
  \/ \E z \in ZoneResults : ZonesFetched(z)
  \/ \E op \in tripOps : TripOpQuery(op)
  \/ \E op \in tripOps : TripOpWrite(op)
  \/ \E t \in timers : TimerFires(t)
  \/ \E t \in timers : TimerReadDone(t)
  \/ \E op \in chargeOps : ChargeOfflineRead(op)
  \/ \E op \in chargeOps : ChargeOfflineWrite(op)
  \/ \E op \in chargeOps : ChargeWalletWrite(op)
  \/ \E op \in chargeOps : ChargeRecordAdd(op)
  \/ \E o \in pendingOps : ProcessPending(o)
  \/ LoadPendingDeduction
  \/ UserSnapshot
  \/ \E b \in BOOLEAN : NetInfoChange(b)
  \/ \E o \in syncOps : SyncRead(o)
  \/ \E o \in syncOps : SyncWalletWrite(o)
  \/ \E o \in syncOps : SyncRecordAdd(o)
  \/ \E o \in syncOps : SyncRemove(o)

SpecFare == InitFare /\ [][NextFare]_vars

\* A drive through zone A and on through a second zone B next to it.
TwoZoneSamples == 3

\* the zone query answers with both zones
TwoZoneResults == { << "A", "B" >> }

InitTwoZones == InitWith(Budget(TwoZoneSamples, 0, 0, 0, 0), {NULL}, {NULL}, {Uid})

NextTwoZones ==
  \/ \E s \in GoodSamples : OnLocation(s)
  \/ \E z \in TwoZoneResults : ZonesFetched(z)
  \/ \E op \in tripOps : TripOpQuery(op)
  \/ \E op \in tripOps : TripOpWrite(op)
  \/ \E t \in timers : TimerFires(t)
  \/ \E t \in timers : TimerReadDone(t)
  \/ \E op \in chargeOps : ChargeWalletWrite(op)
  \/ \E op \in chargeOps : ChargeRecordAdd(op)
  \/ UserSnapshot

SpecTwoZones == InitTwoZones /\ [][NextTwoZones]_vars

\* One trip of a vehicle with or without an active Trip record of its own;
\* the query of the grace callback resolves or throws.
AuthoritySamples == 2

InitAuthority ==
  InitWith(Budget(AuthoritySamples, 0, 0, 0, 0), {NULL}, {NULL}, {Uid, Unregistered})

NextAuthority ==
  \/ \E s \in GoodSamples : OnLocation(s)
  \/ \E z \in ZoneResults : ZonesFetched(z)
  \/ \E op \in tripOps : TripOpQuery(op)
  \/ \E op \in tripOps : TripOpWrite(op)
  \/ \E t \in timers : TimerFires(t)
  \/ \E t \in timers : TimerReadDone(t)
  \/ \E t \in timers : TimerReadFail(t)
  \/ \E op \in chargeOps : ChargeWalletWrite(op)
  \/ \E op \in chargeOps : ChargeRecordAdd(op)
  \/ UserSnapshot

SpecAuthority == InitAuthority /\ [][NextAuthority]_vars

\* The GPS hardware goes off, comes back and goes off again inside the zone
\* while a camera reports the vehicle.
RelapseSamples == 1
RelapseGpsEvents == 3
RelapseSightings == 1

InitRelapse ==
  InitWith(Budget(RelapseSamples, RelapseGpsEvents, 0, RelapseSightings, 0), {NULL}, {NULL}, {Uid})

NextRelapse ==
  \/ \E s \in GoodSamples : OnLocation(s)
  \/ \E z \in ZoneResults : ZonesFetched(z)
  \/ \E b \in BOOLEAN : CheckGpsStatus(b)
  \/ \E op \in tripOps : TripOpQuery(op)
  \/ \E op \in tripOps : TripOpWrite(op)
  \/ \E c \in Cameras : CameraSighting(c)
  \/ \E ev \in events : calculateTollOnSighting(ev)

SpecRelapse == InitRelapse /\ [][NextRelapse]_vars

\* Every update of the Trip record invokes the Backend: the GPS marking and
\* the handoff write of the device, a camera sighting, the Backend's own write.
TriggerSamples == 1
TriggerGpsEvents == 1
TriggerSightings == 1

InitTrigger ==
  InitWith(Budget(TriggerSamples, TriggerGpsEvents, 0, TriggerSightings, 0), {NULL}, {NULL}, {Uid})

NextTrigger ==
  \/ \E s \in GoodSamples : OnLocation(s)
  \/ \E z \in ZoneResults : ZonesFetched(z)
  \/ \E b \in BOOLEAN : CheckGpsStatus(b)
  \/ \E op \in tripOps : TripOpQuery(op)
  \/ \E op \in tripOps : TripOpWriteNotified(op)
  \/ \E c \in Cameras : CameraSighting(c)
  \/ \E ev \in events : calculateTollOnUpdate(ev)

SpecTrigger == InitTrigger /\ [][NextTrigger]_vars

\* watchPositionAsync delivers a sample in this step
SampleArrives == budget.samples' = budget.samples - 1

\* C25 (as stated): a sample whose accuracy is present and above 75 m leaves
\* the history, the filtered location, the zone membership and the trip state
\* as they were.
C25_InaccurateSampleIgnored ==
  [][ ( /\ SampleArrives
        /\ rawLocation'[1].acc # NoAccuracy /\ rawLocation'[1].acc > AccuracyCeiling )
      => ( /\ locationHistoryRef' = locationHistoryRef /\ tripLocation' = tripLocation
           /\ physicallyInZone' = physicallyInZone
           /\ tripZone' = tripZone /\ entryPoint' = entryPoint
           /\ exitTimerRef' = exitTimerRef /\ timers' = timers ) ]_vars

\* hook 5 takes the entry branch in this step: NoTrip -> InZone(Z)
TripStarts == tripZone = NoZone /\ tripZone' # NoZone

\* p is a recorded point that lies inside the polygon of zone z
InsideZone(p, z) == p # NULL /\ isPointInPolygon(p[1], ZoneCoordinates(z))

\* C26 (as stated): the entry point recorded on NoTrip -> InZone(Z) is a
\* coordinate inside Z, and it stays as recorded while the trip of Z lasts.
C26_EntryPointInsideZone ==
  [][ /\ TripStarts => InsideZone(entryPoint', tripZone')
      /\ (tripZone # NoZone /\ tripZone' = tripZone) => entryPoint' = entryPoint ]_vars

\* hook 5 takes the exit branch in this step and arms the grace timer
TimerArmed == exitTimerRef = 0 /\ exitTimerRef' # 0

\* the grace callback t runs to its end in this step
CallbackEnds(t) == t \in timers /\ t.phase = "reading" /\ t \notin timers'

\* the callback of the timer that exitTimerRef names
ArmedTimers(ts, ref) == { t \in ts : t.id = ref }

\* C27: the exit point of the charge is the filtered location of the moment
\* membership was lost: the timer is armed with it, no later step changes what
\* the timer holds, and the charge of the callback is computed from it.
C27_ExitPointCapturedAtLoss ==
  [][ /\ TimerArmed => \A t \in ArmedTimers(timers', exitTimerRef') : t.exit = tripLocation'
      /\ \A t \in timers : \A u \in timers' : u.id = t.id /\ u.trip = t.trip => u.exit = t.exit
      /\ \A t \in timers :
            (CallbackEnds(t) /\ Len(chargeLog') > Len(chargeLog)
               /\ chargeLog'[Len(chargeLog')].branch \notin {"none", "suppressed"})
            => chargeLog'[Len(chargeLog')].toll = calculatedToll(t.entry[1], t.exit[1]) ]_vars

\* the grace timer has expired after samples of the grace window moved the
\* filtered location: a charge from the location of now would differ
C27_Witness ==
  \E t \in timers :
    /\ t.phase = "reading" /\ t.entry # NULL /\ t.exit # NULL /\ canCharge(t.zone)
    /\ tripLocation # t.exit
    /\ calculatedToll(t.entry[1], tripLocation[1]) # calculatedToll(t.entry[1], t.exit[1])

\* setTollZones(matchingDocs) of a zone query runs in this step
ZonesRefreshed == zoneFetch /\ ~ zoneFetch'

\* C28 (as stated): a refresh of the working zone set while a trip is active
\* and the vehicle is inside the trip's zone leaves the trip as it was and
\* arms no grace timer.
C28_RefreshLeavesTrip ==
  [][ (ZonesRefreshed /\ tripZone # NoZone /\ InsideZone(rawLocation, tripZone))
      => ( /\ physicallyInZone' = physicallyInZone
           /\ tripZone' = tripZone /\ entryPoint' = entryPoint
           /\ exitTimerRef' = exitTimerRef /\ timers' = timers ) ]_vars

\* hook 4 does not return early on the sample: its accuracy is absent or
\* within the ceiling
Accepted(raw) == ~ (raw.acc # NoAccuracy /\ raw.acc > AccuracyCeiling)

\* the sample lies further than the jump threshold from the last history entry
Jumped(hist, raw) ==
  Len(hist) > 0 /\ RatGt(getDistance(hist[Len(hist)], raw), JumpThreshold)

IsMeanOf(loc, h) ==
  /\ Len(h) > 0
  /\ loc.lat * Len(h) = SumLat(h) * loc.den
  /\ loc.lng = h[Len(h)].lng /\ loc.acc = h[Len(h)].acc

\* C30: once the renders of an accepted sample have run, the emitted location
\* is the raw sample if the vehicle is inside a zone; outside all zones it is
\* the mean of the history, whose newest entry is that sample.
C30_RawInsideMeanOutside ==
  [][ (SampleArrives /\ Accepted(rawLocation'[1]))
      => IF physicallyInZone' # NoZone
         THEN tripLocation' = rawLocation'
         ELSE /\ Len(locationHistoryRef') > 0
              /\ locationHistoryRef'[Len(locationHistoryRef')] = rawLocation'[1]
              /\ tripLocation' # NULL /\ IsMeanOf(tripLocation'[1], locationHistoryRef') ]_vars

\* outside all zones after a trip, with a history of several samples whose
\* mean is not the newest sample
C30_Witness ==
  /\ physicallyInZone = NoZone /\ tollZones # << >> /\ Len(chargeLog) > 0
  /\ rawLocation # NULL /\ Accepted(rawLocation[1])
  /\ Len(locationHistoryRef) > 1
  /\ locationHistoryRef[Len(locationHistoryRef)] = rawLocation[1]
  /\ tripLocation # rawLocation /\ IsMeanOf(tripLocation[1], locationHistoryRef)

\* the history h after sample s was appended and the oldest entry dropped
\* once the capacity is exceeded
Appended(h, s) ==
  IF Len(h) + 1 > HistoryCapacity THEN Tail(h) \o << s >> ELSE h \o << s >>

\* C31 (as stated): the history never holds more than 7 entries, and a step
\* either leaves it, empties it, restarts it with the sample of the step, or
\* appends that sample once at the end, dropping the oldest entry when full:
\* it holds accepted samples in arrival order, each of them once.
C31_HistoryBoundedInOrder ==
  [][ /\ Len(locationHistoryRef') <= HistoryCapacity
      /\ \/ locationHistoryRef' = locationHistoryRef
         \/ locationHistoryRef' = << >>
         \/ /\ rawLocation' # NULL /\ Accepted(rawLocation'[1])
            /\ \/ locationHistoryRef' = << rawLocation'[1] >>
               \/ locationHistoryRef' = Appended(locationHistoryRef, rawLocation'[1]) ]_vars

\* n is distance(a, b) * 50 / 20 rounded to the nearest integer, a half
\* rounded up, and not below 0
IsFare(n, a, b) ==
  LET d == getDistance(a, b)
      N == d.num * RateNum
      D == d.den * RateDen
  IN n >= 0 /\ (2 * n - 1) * D <= 2 * N /\ 2 * N < (2 * n + 1) * D

\* processPending o ends its 500 ms pause and calls calculateAndChargeToll
PendingCharges(o) ==
  /\ o \in pendingOps /\ o.phase = "sleep"
  /\ [o EXCEPT !.phase = "charging"] \in pendingOps'

\* the newest entry of the charge log, written in this step
Logged == chargeLog'[Len(chargeLog')]

\* C32: 300 m cost 750; the amount computed when the grace callback ends is the
\* rounded fare of the trip's entry and exit, whether it is then charged
\* online, queued offline or deferred; a deferred charge is stored with that
\* entry and exit; processPending is started with the stored pair and computes
\* the rounded fare of it; the queued OfflineTransaction carries the amount.
C32_SameFareOnEveryPath ==
  [][ /\ calculatedToll(Loc(0, 1, 10), Loc(300, 1, 10)) = 750
      /\ \A t \in timers :
            (CallbackEnds(t) /\ Len(chargeLog') > Len(chargeLog) /\ Logged.branch \in ChargeBranches)
            => /\ IsFare(Logged.toll, t.entry[1], t.exit[1])
               /\ \A op \in chargeOps' \ chargeOps : op.toll = Logged.toll
               /\ Logged.branch = "low" /\ pendingDeduction' # pendingDeduction
                  => /\ pendingDeduction'[1].entry = t.entry[1]
                     /\ pendingDeduction'[1].exit = t.exit[1]
                     /\ storedPendingDeduction' = pendingDeduction'
      /\ \A o \in pendingOps' \ pendingOps :
            o.phase = "sleep"
            => /\ pendingDeduction' # NULL
               /\ o.entry = pendingDeduction'[1].entry /\ o.exit = pendingDeduction'[1].exit
      /\ \A o \in pendingOps :
            (PendingCharges(o) /\ Len(chargeLog') > Len(chargeLog) /\ Logged.branch \in ChargeBranches)
            => /\ IsFare(Logged.toll, o.entry, o.exit)
               /\ \A op \in chargeOps' \ chargeOps : op.toll = Logged.toll
      /\ \A op \in chargeOps :
            (op.phase = "offWrite" /\ op \notin chargeOps')
            => /\ offlineTransactions' # NULL
               /\ offlineTransactions'[1][Len(offlineTransactions'[1])].amount = op.toll ]_vars

\* the stored PendingDeduction was re-evaluated and charged, and the trip of
\* this run, 119 m long, is in the offline queue with 298 for its fare of 297.5
C32_Witness ==
  /\ \E i \in DOMAIN chargeLog : chargeLog[i].pend > 0 /\ chargeLog[i].branch = "online"
  /\ \E j \in DOMAIN chargeLog :
        /\ chargeLog[j].branch = "offline" /\ 2 * chargeLog[j].toll - 1 = 119 * 5
        /\ offlineTransactions # NULL
        /\ \E k \in DOMAIN offlineTransactions[1] :
              offlineTransactions[1][k].amount = chargeLog[j].toll

\* C33 (as stated): when an online event arrived while a replay was still in
\* progress, no OfflineTransaction has been decremented from the wallet twice.
C33_OverlapAppliesOnce ==
  audit.overlap =>
    \A a \in BagToSet(audit.decrements) :
      a.by = "replay" => CopiesIn(a, audit.decrements) <= 1

\* AsyncStorage.removeItem('offlineTransactions') of a replay runs in this step
QueueCleared == offlineTransactions # NULL /\ offlineTransactions' = NULL

\* C34 (as stated): when a replay clears the stored queue, every
\* OfflineTransaction the queue holds at that moment, those appended after the
\* replay had read it included, has been decremented from the wallet.
C34_NoEntryLostByClearing ==
  [][ QueueCleared =>
        \A k \in DOMAIN offlineTransactions[1] :
          CopiesIn(Applied("replay", offlineTransactions[1][k].trip,
                           offlineTransactions[1][k].amount, NULL), audit.decrements) >= 1 ]_vars

\* the balance b, as the device holds it, cannot pay the toll above the floor
BelowFloor(b, toll) == b # NULL /\ b[1] - toll < WalletFloor

\* C35 (as stated): when the grace callback of an online device, armed in a
\* render that had a balance, decides between charging and deferring, it
\* defers exactly if the balance the device holds at that moment cannot pay.
C35_FloorCheckOnCurrentBalance ==
  [][ \A t \in timers :
        ( /\ CallbackEnds(t) /\ t.walletBalance # NULL
          /\ Len(chargeLog') > Len(chargeLog) /\ Logged.branch \in {"low", "online"} )
        => ( Logged.branch = "low"
             <=> BelowFloor(walletBalance, calculatedToll(t.entry[1], t.exit[1])) ) ]_vars

\* C36 (as stated): whenever a trip is active its entry point is set.
C36_ActiveTripHasEntryPoint == tripZone # NoZone => entryPoint # NULL

\* the sample of this step lies outside the zone of the trip and inside
\* another zone of the working set
InOtherZone ==
  /\ SampleArrives /\ tripZone # NoZone
  /\ ~ InsideZone(rawLocation', tripZone)
  /\ \E i \in DOMAIN tollZones : tollZones[i] # tripZone /\ InsideZone(rawLocation', tollZones[i])

\* C37: a sample inside another zone leaves the trip, its zone, its entry
\* point and its timers as they are; a grace timer is armed with the zone and
\* the entry point of the trip, and the charge of its callback is for that
\* zone and for the distance from that entry point.
C37_OtherZoneLeavesTrip ==
  [][ /\ InOtherZone => ( /\ tripZone' = tripZone /\ entryPoint' = entryPoint
                          /\ tripNo' = tripNo
                          /\ exitTimerRef' = exitTimerRef /\ timers' = timers )
      /\ TimerArmed => \A t \in ArmedTimers(timers', exitTimerRef') :
                         t.zone = tripZone' /\ t.entry = entryPoint'
      /\ \A t \in timers :
            (CallbackEnds(t) /\ Len(chargeLog') > Len(chargeLog) /\ Logged.branch = "online")
            => /\ Logged.trip = t.trip
               /\ Logged.toll = calculatedToll(t.entry[1], t.exit[1])
               /\ \A op \in chargeOps' \ chargeOps : op.zone = t.zone /\ op.trip = t.trip ]_vars

\* the vehicle is inside zone B while the trip of zone A is active
C37_Witness ==
  /\ tripZone = "A" /\ physicallyInZone = "B" /\ entryPoint # NULL
  /\ InsideZone(rawLocation, "B") /\ ~ InsideZone(rawLocation, "A")

\* the Trip record tells the device that the Backend handles the trip of zone
BackendHandles(zone) == ActiveTrip(zone) /\ trip.calculationMethod # "GPS"

\* C38: when the grace callback of a trip with entry and exit points ends, it
\* either charges or suppresses the charge; it suppresses only if there is an
\* active Trip record of the user and the zone whose method is not GPS, and
\* it charges whenever there is no such record.
C38_AuthorityFailsOpen ==
  [][ \A t \in timers :
        (CallbackEnds(t) /\ t.entry # NULL /\ t.exit # NULL)
        => /\ Len(chargeLog') = Len(chargeLog) + 1
           /\ Logged.trip = t.trip
           /\ Logged.branch \in ChargeBranches \cup {"suppressed"}
           /\ Logged.branch = "suppressed" => BackendHandles(t.zone)
           /\ ~ ActiveTrip(t.zone) => Logged.branch \in ChargeBranches ]_vars

\* the trip was charged although the Trip record of the user and the zone is
\* active with a method other than GPS: the query of the callback threw
C38_Witness ==
  \E i \in DOMAIN chargeLog :
    chargeLog[i].branch \in ChargeBranches /\ chargeLog[i].toll > 0 /\ BackendHandles("A")

\* the Backend has charged a segment from the anchor: it has set the method
\* of the trip back to ANPR and deleted the anchor
AnchorConsumed ==
  \E i \in DOMAIN transactions : transactions[i].calculationMethod = "HYBRID"

\* C39 (as stated): once the Backend has consumed the anchor of the trip, no
\* step sets calculationMethod to HYBRID again and no step stores an anchor.
C39_NoReturnToHybrid ==
  [][ (AnchorConsumed /\ trip.calculationMethod # "HYBRID" /\ trip.lastKnownGpsLocation = NULL)
      => (trip'.calculationMethod # "HYBRID" /\ trip'.lastKnownGpsLocation = NULL) ]_vars

\* the function is invoked for the event ev in this step
Invoked(ev) == ev \in events /\ ev \notin events'

\* C40: an invocation for an update that left lastCheckpoint as it was changes
\* neither the wallet, nor the transaction records, nor the Trip record, and
\* causes no further invocation.
C40_NoCheckpointNoEffect ==
  [][ \A ev \in events :
        (Invoked(ev) /\ ev.before = ev.after.lastCheckpoint)
        => ( /\ userWallet' = userWallet /\ transactions' = transactions
             /\ trip' = trip /\ audit' = audit
             /\ events' = events \ {ev} ) ]_vars

\* the handoff write of the device and the Backend's own write after a
\* sighting have both been followed by their invocations, and the trip was
\* charged once
C40_Witness ==
  /\ events = {} /\ tripOps = {} /\ handoff # {} /\ budget.sightings = 0
  /\ Len(transactions) = 1 /\ trip.totalToll = transactions[1].amount

====
